---------------------------- MODULE Spec2Model ----------------------------
(***************************************************************************)
(* CloudDrop: model of the WebRTCManager (public/js/webrtc.js) and of the  *)
(* CryptoManager it uses.  Two endpoints, "a" and "b", each run one        *)
(* WebRTCManager whose only remote peer is the other endpoint.  Every      *)
(* per-peer Map of the manager (connections, dataChannels, makingOffer,    *)
(* ...) is a function from the endpoint to the entry it holds for that     *)
(* peer.  An async method is a task: a record that names the method and    *)
(* the await it is suspended at; one action runs a task from one await to  *)
(* the next, as the event loop does.  The signaling service is one FIFO    *)
(* queue per direction.                                                    *)
(*                                                                         *)
(* Assumptions of the model.  The browser delivers iceconnectionstatechange*)
(* and the connectionstatechange that follows from it in one step.  A      *)
(* handle that createConnection has replaced in the Map is inert: a task   *)
(* that still holds it fails at its next use of it, and its events are not *)
(* delivered.  The promises in pendingConnections are told apart by kind   *)
(* (createConnection's, _establishConnection's), not by identity.          *)
(* The data channel and the signaling service each deliver in the order    *)
(* sent.  The decryptions that are pending at one endpoint settle in any   *)
(* order.  A transfer id is the number of the sendFile that drew it.  The  *)
(* data channel may open as soon as both ends have applied the session.    *)
(***************************************************************************)
EXTENDS Integers, Sequences, FiniteSets, TLC

E == {"a", "b"}
Peer(e) == IF e = "a" THEN "b" ELSE "a"

\* ------------------------------------------------------------- bounds
MaxIdLen == 2        \* peer ids are strings of at most this many code units
MaxCode == 2         \* over the code units 1..MaxCode
MaxOffers == 1       \* createOffer calls made by the application, per endpoint
MaxCands == 2        \* ICE candidates gathered and signalled, per endpoint
MaxCalls == 2        \* ensureConnection / sendFile / sendText calls, per endpoint
MaxIceEvents == 6    \* ICE connectivity changes delivered to one endpoint
MaxFull == 1         \* a file has at most this many full chunks, then at most a byte
MaxCloses == 2       \* closeConnection calls, and closings of a channel, per endpoint
MaxServers == 5      \* servers in the list that rankIceServers is given
MaxFetchCalls == 3   \* calls of fetchIceServers
MaxTicks == 2        \* advances of the clock
MaxKeyCalls == 2     \* key pairs generated, per endpoint
MaxPlain == 2        \* bytes of the chunk that is encrypted into a frame
MaxByte == 1         \* a byte is one of 0..MaxByte
MaxPeers == 3        \* peers that one cryptoManager exchanges keys with

\* ------------------------------------------------- program constants
MAX_ICE_RESTARTS == 2
CHUNK_SIZE == 64 * 1024
ICE_SERVERS_CACHE_TTL == 5 * 60 * 1000
IV_LENGTH == 12

\* The latencies that a probe measures, in ms.
Latencies == {20, 50, 80}

VARIABLES
  myPeerId,            \* this._myPeerId; <<>> is "not set" (and the empty string)
  assignedId,          \* the id the signaling service gave the endpoint
  connections,         \* connections.get(peer): "none", or pc.connectionState
  signalingState,      \* pc.signalingState of that handle
  remoteDescription,   \* pc.remoteDescription is set
  iceConnectionState,  \* pc.iceConnectionState
  makingOffer,         \* makingOffer.get(peer): "unset", "true", "false"
  ignoreOffer,         \* ignoreOffer.get(peer)
  pendingConnections,  \* "none", "cp" (createConnection's promise), "ec" (ensureConnection's)
  dataChannels,        \* dataChannels.get(peer): "none", or channel.readyState
  pendingCandidates,   \* pendingCandidates.get(peer), <<>> when absent
  iceRestartCounts,    \* iceRestartCounts.get(peer) || 0
  disconnectedTimers,  \* disconnectedTimers.get(peer): "none", "pending", "fired"
  relayMode,           \* relayMode.get(peer)
  keyPair,             \* cryptoManager.keyPair: 0 for null, else the n-th pair generated
  sharedSecrets,       \* cryptoManager.sharedSecrets.get(peer): <<>> when absent, else
                       \* <<own pair, peer's pair>> the key was derived from
  incomingTransfers,   \* incomingTransfers.get(peer): the transfer object, or NoTransfer
  tasks,               \* the suspended async methods of the endpoint
  net,                 \* signaling messages on their way to the endpoint
  chan,                \* data channel messages on their way to the endpoint
  obs,                 \* what an observer of the endpoint has seen (history)
  cachedIceServers,           \* the module's cached list; <<>> is null
  cachedIceServersTimestamp,  \* when the cache was written
  iceServersFetchPromise,     \* 0 is null, else the number of the pending refresh
  fetches,             \* the clock, the refreshes and the calls of fetchIceServers
  frames,              \* a chunk, the frame made of it, and what decrypting it gave
  exports              \* cryptoManager with several peers: its pair and its pending calls

vars == <<myPeerId, assignedId, connections, signalingState, remoteDescription,
          iceConnectionState, makingOffer, ignoreOffer, pendingConnections,
          dataChannels, pendingCandidates, iceRestartCounts, disconnectedTimers,
          relayMode, keyPair, sharedSecrets, incomingTransfers, tasks, net, chan, obs,
          cachedIceServers, cachedIceServersTimestamp, iceServersFetchPromise, fetches,
          frames, exports>>

\* The state of the module outside the manager objects (lines 22-24).
iceVars == <<cachedIceServers, cachedIceServersTimestamp, iceServersFetchPromise, fetches>>

\* ------------------------------------------------------------ peer ids
RECURSIVE StringsUpTo(_)
StringsUpTo(n) ==
  IF n = 0 THEN {<<>>}
  ELSE LET shorter == StringsUpTo(n - 1)
       IN  shorter \cup {Append(s, c) : s \in {t \in shorter : Len(t) = n - 1}, c \in 1..MaxCode}

PeerIds == StringsUpTo(MaxIdLen)

\* JavaScript's a < b on strings: by code unit, a proper prefix is smaller.
RECURSIVE StrLess(_, _)
StrLess(x, y) ==
  IF y = <<>> THEN FALSE
  ELSE IF x = <<>> THEN TRUE
  ELSE IF Head(x) # Head(y) THEN Head(x) < Head(y)
  ELSE StrLess(Tail(x), Tail(y))

\* A comparison that looks at the first code unit only.
IsPoliteFirstUnit(my, peerId) ==
  IF my = <<>> THEN TRUE
  ELSE IF peerId = <<>> THEN FALSE
  ELSE Head(my) < Head(peerId)

\* _isPolite(peerId) with this._myPeerId = my
IsPolite(my, peerId) ==
  IF my = <<>> THEN TRUE ELSE StrLess(my, peerId)

_isPolite(e) == IsPolite(myPeerId[e], assignedId[Peer(e)])


\* --------------------------------------------------- endpoint snapshots
\* The state of endpoint e as one record, so that a handler is the composition
\* of the statements it executes; out collects what it hands to signaling.send,
\* outc what it hands to the data channel's send; popc: it consumed the head of
\* the endpoint's data channel queue; arg: the size of the file that the call
\* being made was given.
St(e) ==
  [ myPeerId |-> myPeerId[e], connections |-> connections[e],
    signalingState |-> signalingState[e], remoteDescription |-> remoteDescription[e],
    iceConnectionState |-> iceConnectionState[e],
    makingOffer |-> makingOffer[e], ignoreOffer |-> ignoreOffer[e],
    pendingConnections |-> pendingConnections[e], dataChannels |-> dataChannels[e],
    pendingCandidates |-> pendingCandidates[e], iceRestartCounts |-> iceRestartCounts[e],
    disconnectedTimers |-> disconnectedTimers[e], relayMode |-> relayMode[e],
    keyPair |-> keyPair[e], sharedSecrets |-> sharedSecrets[e],
    incomingTransfers |-> incomingTransfers[e], tasks |-> tasks[e], obs |-> obs[e],
    polite |-> _isPolite(e), out |-> <<>>, outc |-> <<>>, popc |-> FALSE, arg |-> 0 ]

\* The endpoint's next state is next, evaluated once as s; recv is TRUE when
\* the step consumed the head of the endpoint's signaling queue.
Commit(e, next, recv) ==
  \E s \in {next} :
    /\ myPeerId' = [myPeerId EXCEPT ![e] = s.myPeerId]
    /\ connections' = [connections EXCEPT ![e] = s.connections]
    /\ signalingState' = [signalingState EXCEPT ![e] = s.signalingState]
    /\ remoteDescription' = [remoteDescription EXCEPT ![e] = s.remoteDescription]
    /\ iceConnectionState' = [iceConnectionState EXCEPT ![e] = s.iceConnectionState]
    /\ makingOffer' = [makingOffer EXCEPT ![e] = s.makingOffer]
    /\ ignoreOffer' = [ignoreOffer EXCEPT ![e] = s.ignoreOffer]
    /\ pendingConnections' = [pendingConnections EXCEPT ![e] = s.pendingConnections]
    /\ dataChannels' = [dataChannels EXCEPT ![e] = s.dataChannels]
    /\ pendingCandidates' = [pendingCandidates EXCEPT ![e] = s.pendingCandidates]
    /\ iceRestartCounts' = [iceRestartCounts EXCEPT ![e] = s.iceRestartCounts]
    /\ disconnectedTimers' = [disconnectedTimers EXCEPT ![e] = s.disconnectedTimers]
    /\ relayMode' = [relayMode EXCEPT ![e] = s.relayMode]
    /\ keyPair' = [keyPair EXCEPT ![e] = s.keyPair]
    /\ sharedSecrets' = [sharedSecrets EXCEPT ![e] = s.sharedSecrets]
    /\ incomingTransfers' = [incomingTransfers EXCEPT ![e] = s.incomingTransfers]
    /\ tasks' = [tasks EXCEPT ![e] = SelectSeq(s.tasks, LAMBDA x : x.at # "done")]
    /\ obs' = [obs EXCEPT ![e] = s.obs]
    /\ net' = [net EXCEPT ![e] = IF recv THEN Tail(@) ELSE @,
                          ![Peer(e)] = @ \o s.out]
    /\ chan' = [chan EXCEPT ![e] = IF s.popc THEN Tail(@) ELSE @,
                            ![Peer(e)] = @ \o s.outc]
    /\ UNCHANGED <<assignedId, iceVars, frames, exports>>

Truthy(flag) == flag = "true"

\* A handle of the Map that createConnection returns as it is (lines 253-256).
Usable(s) == s.connections \notin {"none", "failed", "closed"}

\* ------------------------------------------------------------- messages
Msg(type, pk, restart, cand) ==
  [type |-> type, publicKey |-> pk, iceRestart |-> restart, candidate |-> cand]
OfferMsg(pk, restart) == Msg("offer", pk, restart, 0)
AnswerMsg(pk) == Msg("answer", pk, FALSE, 0)
CandidateMsg(c) == Msg("ice-candidate", 0, FALSE, c)
Send(s, m) == [s EXCEPT !.out = Append(@, m)]

\* ---------------------------------------------------------------- tasks
\* fn: the async method; at: the await it is suspended at ("done" once it has
\* returned); pc: the handle it holds (obs.handlesCreated when it was obtained,
\* 0 for none); on: the pending promise it awaits; caller: who called it; pk:
\* the public key of the message it handles; i, arr, shared: the position of
\* a candidate flush in its array; ch, key: what waitForChannel and
\* waitForEncryptionKey have resolved; size: file.size of the file a send was
\* given; file, offset, via: fileId, offset and the carrier of a send's chunk
\* loop; data, xfer: what a decryption will yield and the transfer object it
\* will push to.
Task(fn, caller, pk) ==
  [fn |-> fn, at |-> "start", pc |-> 0, on |-> "none", caller |-> caller, pk |-> pk,
   i |-> 0, arr |-> <<>>, shared |-> FALSE, ch |-> FALSE, key |-> FALSE,
   size |-> 0, file |-> 0, offset |-> 0, via |-> "none", data |-> [none |-> TRUE], xfer |-> 0]

AddTask(s, t) == [s EXCEPT !.tasks = Append(@, [t EXCEPT !.size = s.arg])]
SetTask(s, k, t) == [s EXCEPT !.tasks[k] = t]
At(s, k, at) == [s EXCEPT !.tasks[k].at = at]
Done(s, k) == At(s, k, "done")

Note(s, field, v) == [s EXCEPT !.obs[field] = v]
Count(s, field) == [s EXCEPT !.obs[field] = @ + 1]

\* The handle a task holds is the one in the Map, and it is not closed.
Current(s, t) == s.connections # "none" /\ t.pc = s.obs.handlesCreated

\* ------------------------------------------------ candidate flushing
\* The array a flush iterates: the Map's array while the entry has not been
\* deleted under it, its own reference afterwards.
FlushArray(s, t) == IF t.shared THEN s.pendingCandidates ELSE t.arr

\* pendingCandidates.delete(peer): every flush that iterates the array keeps
\* its reference to it.
DeletePending(s) ==
  [s EXCEPT !.pendingCandidates = <<>>,
            !.tasks = [k \in DOMAIN s.tasks |->
                         IF s.tasks[k].shared
                         THEN [s.tasks[k] EXCEPT !.arr = s.pendingCandidates, !.shared = FALSE]
                         ELSE s.tasks[k]]]

\* _flushPendingCandidates up to its first await (lines 433-438): t is the task
\* that runs it, suspended at `at` while candidates are being added.
FlushBegins(s) == Len(s.pendingCandidates) > 0
FlushTask(t, at) == [t EXCEPT !.at = at, !.i = 1, !.arr = <<>>, !.shared = TRUE]


Cur(s) == IF s.connections = "none" THEN 0 ELSE s.obs.handlesCreated

\* -------------------------------------------------------- CryptoManager
generateKeyPair(s) ==
  Count([s EXCEPT !.keyPair = s.obs.keysGenerated + 1], "keysGenerated")

\* exportPublicKey: the state after it; the key exported is that state's keyPair.
exportPublicKey(s) == IF s.keyPair = 0 THEN generateKeyPair(s) ELSE s

\* importPeerPublicKey reads this.keyPair.privateKey: it throws when keyPair is null.
CanImport(s) == s.keyPair # 0
importPeerPublicKey(s, pk) == [s EXCEPT !.sharedSecrets = <<s.keyPair, pk>>]

hasSharedSecret(s) == s.sharedSecrets # <<>>

\* ----------------------------------------------------- createConnection
\* The body of connectionPromise after fetchIceServers (lines 269-326) and the
\* finally callback (lines 335-339).  The flush of line 324 is not awaited.
createConnection_create(s) ==
  LET s1 == [s EXCEPT !.connections = "new", !.signalingState = "stable",
                      !.remoteDescription = FALSE, !.iceConnectionState = "new",
                      !.makingOffer = "false", !.ignoreOffer = "false",
                      !.obs.handlesCreated = @ + 1, !.obs.attempts = 0]
      f  == [FlushTask(Task("flush", "createConnection", 0), "flush")
               EXCEPT !.pc = s1.obs.handlesCreated]
      s2 == IF FlushBegins(s1) THEN AddTask(s1, f) ELSE s1
  IN  [s2 EXCEPT !.pendingConnections = "none"]

\* ------------------------------------------- waitForChannel and the key
\* _establishConnection's Promise.all (lines 957-960), and ensureConnection's
\* (lines 912-915): waitForChannel captures the handle of the Map.
establish_wait(s, k) ==
  SetTask(s, k, [s.tasks[k] EXCEPT !.fn = "ensureConnection", !.at = "wait",
                                   !.pc = Cur(s), !.ch = FALSE, !.key = FALSE])

\* ----------------------------------------------------------- createOffer
\* The finally block (lines 500-506); a createOffer called by
\* _establishConnection goes on to wait for the channel and the key.
createOffer_finally(s, k) ==
  LET s1 == [s EXCEPT !.makingOffer = "false"]
  IN  IF s.tasks[k].caller = "app" THEN Done(s1, k) ELSE establish_wait(s1, k)

\* setupDataChannel (lines 448-450): the channel, the n-th that the endpoint
\* set up, is registered for the peer.
setupDataChannel(s) ==
  [s EXCEPT !.dataChannels = "connecting", !.obs.channelsMade = @ + 1,
            !.obs.registered = s.obs.channelsMade + 1]

\* Lines 476-487, with the handle obtained.
createOffer_withPc(s, k) ==
  IF s.dataChannels \in {"open", "connecting"}
  THEN createOffer_finally(s, k)
  ELSE SetTask(setupDataChannel(s), k,
               [s.tasks[k] EXCEPT !.at = "await_offer", !.pc = Cur(s)])

\* Lines 487-497: the key export, pc.createOffer, setLocalDescription (a local
\* offer is valid in stable and have-local-offer) and the send.
createOffer_send(s, k) ==
  LET s1 == exportPublicKey(s)
  IN  IF Current(s1, s.tasks[k]) /\ s1.signalingState \in {"stable", "have-local-offer"}
      THEN createOffer_finally(
             Count(Send([s1 EXCEPT !.signalingState = "have-local-offer"],
                        OfferMsg(s1.keyPair, FALSE)), "offersSent"), k)
      ELSE createOffer_finally(Count(s1, "thrown"), k)

\* ----------------------------------------------------------- handleOffer
\* Lines 514-532, with the handle obtained: the collision check.
handleOffer_withPc(s, k) ==
  LET offerCollision == Truthy(s.makingOffer)
                          \/ s.signalingState \notin {"stable", "have-local-offer"}
      ignore == ~s.polite /\ offerCollision
      s0 == IF Truthy(s.makingOffer) \/ s.signalingState = "have-local-offer"
            THEN Count(s, "glare") ELSE s
      s1 == [s0 EXCEPT !.ignoreOffer = IF ignore THEN "true" ELSE "false"]
  IN  IF ignore THEN Done(Count(s1, "ignored"), k)
      ELSE SetTask(s1, k, [s.tasks[k] EXCEPT
             !.pc = Cur(s),
             !.at = IF s.signalingState = "have-local-offer"
                    THEN "await_rollback" ELSE "await_remote"])

\* Line 531: setLocalDescription({type: 'rollback'}) has completed.
handleOffer_rollback(s, k) ==
  IF Current(s, s.tasks[k]) /\ s.signalingState = "have-local-offer"
  THEN At(Count([s EXCEPT !.signalingState = "stable"],
                IF s.polite THEN "rollbacks" ELSE "impoliteRollbacks"), k, "await_remote")
  ELSE Done(Count(s, "thrown"), k)

\* The flush a handler awaits after setRemoteDescription (lines 537, 580).
flush_or(s, k, next) ==
  IF FlushBegins(s) THEN SetTask(s, k, FlushTask(s.tasks[k], "flush")) ELSE At(s, k, next)

\* Line 534: setRemoteDescription(offer) has completed.  A remote offer is valid
\* in stable and have-remote-offer; in have-local-offer the browser either
\* rolls the local offer back itself (implicit) or rejects the call.
handleOffer_remote(s, k, implicit) ==
  IF /\ Current(s, s.tasks[k])
     /\ \/ s.signalingState \in {"stable", "have-remote-offer"}
        \/ implicit /\ s.signalingState = "have-local-offer"
  THEN flush_or([s EXCEPT !.signalingState = "have-remote-offer",
                          !.remoteDescription = TRUE], k, "await_key")
  ELSE Done(Count(s, "thrown"), k)

\* Lines 539-541.
handleOffer_key(s, k) ==
  IF CanImport(s) THEN At(importPeerPublicKey(s, s.tasks[k].pk), k, "await_answer")
  ELSE Done(Count(s, "thrown"), k)

\* Lines 543-552: a local answer is valid in have-remote-offer only.
handleOffer_answer(s, k) ==
  LET s1 == exportPublicKey(s)
  IN  IF Current(s1, s.tasks[k]) /\ s1.signalingState = "have-remote-offer"
      THEN Done(Count(Send([s1 EXCEPT !.signalingState = "stable"],
                           AnswerMsg(s1.keyPair)), "answersSent"), k)
      ELSE Done(Count(s1, "thrown"), k)

\* ---------------------------------------------------------- handleAnswer
\* handleAnswer without the check of the signaling state (lines 569-574).
handleAnswerUnchecked(s, m) ==
  IF s.connections = "none" THEN Count(s, "answersDropped")
  ELSE AddTask(s, [Task("handleAnswer", "signaling", m.publicKey)
                     EXCEPT !.at = "await_remote", !.pc = Cur(s)])

\* Lines 559-577: up to the await of setRemoteDescription.
handleAnswer(s, m) ==
  IF s.connections = "none" \/ s.signalingState # "have-local-offer"
  THEN Count(s, "answersDropped")
  ELSE AddTask(s, [Task("handleAnswer", "signaling", m.publicKey)
                     EXCEPT !.at = "await_remote", !.pc = Cur(s)])

\* Lines 577-580: a remote answer is valid in have-local-offer only.
handleAnswer_remote(s, k) ==
  IF Current(s, s.tasks[k]) /\ s.signalingState = "have-local-offer"
  THEN flush_or(Count([s EXCEPT !.signalingState = "stable",
                                !.remoteDescription = TRUE], "answersApplied"),
                k, "await_key")
  ELSE Done(Count(s, "thrown"), k)

\* Lines 582-585.
handleAnswer_key(s, k) ==
  IF CanImport(s) THEN Done(importPeerPublicKey(s, s.tasks[k].pk), k)
  ELSE Done(Count(s, "thrown"), k)

\* ----------------------------------------------------- handleIceCandidate
\* Lines 592-614.
handleIceCandidate(s, c) ==
  LET s1 == Note(s, "candReceived", s.obs.candReceived \cup {c})
  IN  IF s.connections # "none" /\ s.remoteDescription
      THEN Note(s1, "candApplied", Append(s.obs.candApplied, c))
      ELSE [s1 EXCEPT !.pendingCandidates = Append(@, c)]

\* One addIceCandidate of _flushPendingCandidates has settled (lines 436-443):
\* it fails on a handle without remote description.
flush_step(s, k) ==
  LET t  == s.tasks[k]
      c  == FlushArray(s, t)[t.i]
      s1 == IF Current(s, t) /\ s.remoteDescription
            THEN Note(s, "candApplied", Append(s.obs.candApplied, c))
            ELSE Note(s, "candRejected", s.obs.candRejected \cup {c})
  IN  IF t.i < Len(FlushArray(s, t))
      THEN SetTask(s1, k, [t EXCEPT !.i = @ + 1])
      ELSE At(DeletePending(s1), k, IF t.fn = "flush" THEN "done" ELSE "await_key")


\* clearTimeout of the peer's grace timer and its removal from the Map (lines
\* 351-354, 968-971); timersPending is the number of grace timers of the peer
\* that the browser still holds, timerCleared that one was cancelled in time,
\* timerOf the handle whose callback the pending timer holds (0 for none).
clearDisconnectedTimer(s) ==
  IF s.disconnectedTimers = "pending"
  THEN [s EXCEPT !.disconnectedTimers = "none", !.obs.timersPending = @ - 1,
                 !.obs.timerCleared = TRUE, !.obs.timerOf = 0]
  ELSE [s EXCEPT !.disconnectedTimers = "none"]

\* setTimeout(..., DISCONNECTED_TIMEOUT) and its entry in the Map (lines 359-365).
setDisconnectedTimer(s) ==
  [s EXCEPT !.disconnectedTimers = "pending", !.obs.timersPending = @ + 1,
            !.obs.timerOf = s.obs.handlesCreated]

\* ------------------------------------------------------- closeConnection
\* this.dataChannels.get(peerId)?.close() (line 973): the close event of the
\* registered channel is due; it is dispatched later, if at all.
closeRegistered(s) ==
  IF s.dataChannels = "none" THEN s
  ELSE [s EXCEPT !.obs.closing = @ \cup {s.obs.registered}]

\* channel.onclose (lines 460-463): the peer's entry is deleted.
channel_onclose(s) == [s EXCEPT !.dataChannels = "none", !.obs.registered = 0]

\* Lines 966-983.
closeConnection(s) ==
  [DeletePending(clearDisconnectedTimer(closeRegistered(s))) EXCEPT
     !.obs.closes = @ + 1, !.obs.registered = 0,
     !.dataChannels = "none", !.connections = "none",
     !.signalingState = "closed", !.iceConnectionState = "closed",
     !.remoteDescription = FALSE, !.pendingConnections = "none",
     !.iceRestartCounts = 0, !.makingOffer = "unset", !.ignoreOffer = "unset",
     !.sharedSecrets = <<>>]

\* ------------------------------------------------------ transfer records
\* The records of a transfer as sendFile and sendFileViaRelay build them (lines
\* 636-642, 670, 678-688, 699-707, 725-729); a binary message of the data
\* channel carries no fileId.
Ceil(size) == (size + CHUNK_SIZE - 1) \div CHUNK_SIZE
Min(x, y) == IF x < y THEN x ELSE y

Rec(type, fileId, size, data) ==
  [type |-> type, fileId |-> fileId, size |-> size, totalChunks |-> Ceil(size), data |-> data]
NoData == [none |-> TRUE]
FileStart(fileId, size) == Rec("file-start", fileId, size, NoData)
FileEnd(fileId) == Rec("file-end", fileId, 0, NoData)
\* { type: 'text', content: text }: the text as the application passed it.
TextRec == Rec("text", 0, 0, [content |-> "text"])
Binary(data) == Rec("binary", 0, 0, data)
RelayChunk(fileId, data) == Rec("chunk", fileId, 0, data)
RelayMsg(rec) ==
  [type |-> "relay-data", publicKey |-> 0, iceRestart |-> FALSE, candidate |-> 0, data |-> rec]

\* The sizes of the files the application sends.
Sizes == {full * CHUNK_SIZE + rest : full \in 0..MaxFull, rest \in {0, 1}}

\* A slice that is not cut at the chunk size.
SliceToEnd(fileId, size, offset) == [file |-> fileId, from |-> offset, to |-> size]

\* file.slice(offset, offset + CHUNK_SIZE): the bytes [from, to) of the file.
Slice(fileId, size, offset) ==
  [file |-> fileId, from |-> offset, to |-> Min(offset + CHUNK_SIZE, size)]

\* encryptChunk (crypto.js 135-144): the ciphertext under the key derived from
\* the pairs <<own, peer's>>, the IV in front; intact until someone alters it.
encryptChunk(s, plain) == [secret |-> s.sharedSecrets, plain |-> plain, intact |-> TRUE]

Rejected == [rejected |-> TRUE]

\* decryptChunk (crypto.js 152-158, 111-127): the two ends derive the same key
\* when each used the pair the other exported; "fail" is a rejection.
decryptChunk(s, enc) ==
  IF /\ s.sharedSecrets # <<>>
     /\ enc.intact
     /\ enc.secret = <<s.sharedSecrets[2], s.sharedSecrets[1]>>
  THEN enc.plain ELSE Rejected

\* Lines 697 and 796-800: the bytes as a base64 string, and back.
ToBase64(bytes) == [base64 |-> bytes]
FromBase64(str) == str.base64

\* A record goes out on the carrier.
Emit(s, via, rec) ==
  LET s1 == Note(s, "emitted", Append(s.obs.emitted, [via |-> via, rec |-> rec]))
  IN  IF via = "relay" THEN Send(s1, RelayMsg(rec)) ELSE [s1 EXCEPT !.outc = Append(@, rec)]

\* ----------------------------------------------- sendFile's chunk loops
\* The send throws out of sendFile: dc.send on a channel that is not open (or
\* on undefined), or encrypt without a shared key.
send_throws(s, k, why) == Done(Count(s, why), k)

\* Lines 670-671, 725-730: the file-end goes out and the send returns.
sendFile_end(s, k, via, fileId) ==
  LET s1 == Emit(s, via, FileEnd(fileId))
  IN  Done(Note(s1, "returned", s1.obs.returned \cup {fileId}), k)

\* Lines 644-646 and 690-692, 725-729: the loop begins, or the file is empty.
sendFile_loop(s, k, via, fileId) ==
  IF s.tasks[k].size > 0
  THEN SetTask(s, k, [s.tasks[k] EXCEPT !.fn = "sendFile", !.at = "await_chunk",
                                        !.via = via, !.file = fileId, !.offset = 0])
  ELSE sendFile_end(s, k, via, fileId)

\* Lines 632-646: sendFile on the data channel, after ensureConnection.
sendFile_direct(s, k) ==
  IF s.dataChannels # "open" THEN send_throws(s, k, "sendTransportErrors")
  ELSE LET fileId == s.obs.filesStarted + 1
           s1 == Emit(Count(s, "filesStarted"), "direct", FileStart(fileId, s.tasks[k].size))
       IN  sendFile_loop(s1, k, "direct", fileId)

\* Lines 674-692: sendFileViaRelay.
sendFileViaRelay(s, k) ==
  LET fileId == s.obs.filesStarted + 1
      s1 == Emit(Count(s, "filesStarted"), "relay", FileStart(fileId, s.tasks[k].size))
  IN  sendFile_loop(s1, k, "relay", fileId)

\* this.onProgress(...) of sendFile (lines 659-667): sent and percent as the
\* loop computes them from the offset it has just advanced; the percentage is
\* the fraction num / den.  upto: the records that had gone out by then.
onProgress_direct(s, fileId, offset, size) ==
  Note(s, "progress",
       Append(s.obs.progress,
              [via |-> "direct", fileId |-> fileId, sent |-> offset, total |-> size,
               percent |-> [num |-> offset * 100, den |-> size],
               upto |-> Len(s.obs.emitted)]))

\* this.onProgress(...) of sendFileViaRelay (lines 711-719), with its Math.min.
onProgress_relay(s, fileId, offset, size) ==
  Note(s, "progress",
       Append(s.obs.progress,
              [via |-> "relay", fileId |-> fileId, sent |-> Min(offset, size), total |-> size,
               percent |-> IF offset * 100 <= 100 * size
                           THEN [num |-> offset * 100, den |-> size]
                           ELSE [num |-> 100, den |-> 1],
               upto |-> Len(s.obs.emitted)]))

\* Lines 647-668 and 670, 693-722: one chunk has been read and encrypted (and
\* the channel's backlog has drained) and is sent; progress is reported.
sendFile_chunk(s, k) ==
  LET t == s.tasks[k]
      enc == encryptChunk(s, Slice(t.file, t.size, t.offset))
      offset == t.offset + CHUNK_SIZE
  IN  IF ~hasSharedSecret(s) THEN send_throws(s, k, "sendCryptoErrors")
      ELSE IF t.via = "relay"
      THEN SetTask(onProgress_relay(Emit(s, "relay", RelayChunk(t.file, ToBase64(enc))),
                                    t.file, offset, t.size), k,
                   [t EXCEPT !.offset = offset, !.at = "await_delay"])
      ELSE IF s.dataChannels # "open" THEN send_throws(s, k, "sendTransportErrors")
      ELSE LET s1 == onProgress_direct(Emit(s, "direct", Binary(enc)), t.file, offset, t.size)
           IN  IF offset < t.size THEN SetTask(s1, k, [t EXCEPT !.offset = offset])
               ELSE sendFile_end(s1, k, "direct", t.file)

\* Lines 722-729: the delay between two relayed chunks has passed.
sendFile_delayed(s, k) ==
  LET t == s.tasks[k]
  IN  IF t.offset < t.size THEN At(s, k, "await_chunk")
      ELSE sendFile_end(s, k, "relay", t.file)

\* ------------------------------------- handleMessage and handleRelayData
\* incomingTransfers.get(peer) is undefined.
NoTransfer == [fileId |-> 0, size |-> 0, chunks |-> <<>>, serial |-> 0]

\* file-start (lines 737-742, 780-785): a new transfer object replaces the
\* peer's entry.
transfer_start(s, rec) ==
  Count([s EXCEPT !.incomingTransfers =
           [fileId |-> rec.fileId, size |-> rec.size, chunks |-> <<>>,
            serial |-> s.obs.transfersStarted + 1]], "transfersStarted")

\* file-end (lines 743-749, 786-792): the peer's transfer is handed to
\* onFileReceived and its entry is deleted.
transfer_end(s, rec) ==
  IF s.incomingTransfers = NoTransfer THEN s
  ELSE Note([s EXCEPT !.incomingTransfers = NoTransfer], "filesReceived",
            Append(s.obs.filesReceived,
                   [fileId |-> s.incomingTransfers.fileId, endId |-> rec.fileId,
                    size |-> s.incomingTransfers.size, serial |-> s.incomingTransfers.serial,
                    chunks |-> s.incomingTransfers.chunks]))

\* Lines 754-756, 794-802: the decryption of a chunk is started for the
\* transfer object at hand.
transfer_chunk(s, fn, enc) ==
  AddTask(s, [Task(fn, "transport", 0) EXCEPT
                !.at = "await_decrypt", !.data = decryptChunk(s, enc),
                !.xfer = s.incomingTransfers.serial])

\* Lines 756-758, 802-804: the decryption has settled; the chunk is pushed to
\* the transfer object the handler holds, which may not be the peer's entry
\* any more.
decrypt_done(s, k) ==
  LET t == s.tasks[k]
  IN  IF t.data = Rejected
      THEN Done(Note(Count(s, "decryptFailed"), "failedIn", s.obs.failedIn \cup {t.xfer}), k)
      ELSE IF s.incomingTransfers # NoTransfer /\ s.incomingTransfers.serial = t.xfer
      THEN Done([s EXCEPT !.incomingTransfers.chunks = Append(@, t.data)], k)
      ELSE Done(Count(s, "orphanChunks"), k)

\* handleMessage (lines 733-771).
handleMessage(s, rec) ==
  CASE rec.type = "file-start" -> transfer_start(s, rec)
    [] rec.type = "file-end" -> transfer_end(s, rec)
    [] rec.type = "text" -> Count(s, "textsReceived")
    [] OTHER -> IF s.incomingTransfers = NoTransfer THEN s
                ELSE transfer_chunk(s, "handleMessage", rec.data)

\* handleRelayData (lines 774-819).
handleRelayData(s, rec) ==
  LET s1 == IF s.relayMode THEN s ELSE Count([s EXCEPT !.relayMode = TRUE], "relayFlips")
  IN  CASE rec.type = "file-start" -> transfer_start(s1, rec)
        [] rec.type = "file-end" -> transfer_end(s1, rec)
        [] rec.type = "chunk" ->
             IF s1.incomingTransfers # NoTransfer /\ s1.incomingTransfers.fileId = rec.fileId
             THEN transfer_chunk(s1, "handleRelayData", FromBase64(rec.data))
             ELSE s1
        [] OTHER -> Count(s1, "textsReceived")

\* ------------------------------------------------- sendFile and sendText
\* What sendFile and sendText do once ensureConnection has returned (lines
\* 632-671, 830) and once it has thrown (lines 625-630, 831-836).
\* Line 839-845 and 620, 825: the send on the relay.
send_relay(s, k) ==
  IF s.tasks[k].caller = "sendText" THEN Done(Emit(s, "relay", TextRec), k)
  ELSE sendFileViaRelay(s, k)

send_fallback(s, k) ==
  send_relay(Count(Count([s EXCEPT !.relayMode = TRUE], "notifiedRelay"), "relaySends"), k)

send_direct(s, k) ==
  IF s.tasks[k].caller = "sendText"
  THEN IF s.dataChannels = "open" THEN Done(Emit(Count(s, "directSends"), "direct", TextRec), k)
       ELSE send_fallback(Count(s, "caughtTransportErrors"), k)
  ELSE sendFile_direct(Count(s, "directSends"), k)

\* -------------------------------------------------------- ensureConnection
\* ensureConnection returns to its caller.
ensure_return(s, k) ==
  IF s.tasks[k].caller = "ensure" THEN Done(Count(s, "ensured"), k) ELSE send_direct(s, k)

\* ensureConnection throws to its caller.
ensure_throw(s, k) ==
  IF s.tasks[k].caller = "ensure" THEN Done(Count(s, "ensureFailed"), k)
  ELSE send_fallback(s, k)

\* The code that awaited a pending promise resumes: createConnection's callers
\* with the handle (promise "cp"), or with undefined or an exception (promise
\* "ec", which is _establishConnection's).
Resume(s, k, on, ok) ==
  LET t == s.tasks[k]
  IN  IF on = "cp"
      THEN CASE t.fn = "createOffer" -> createOffer_withPc(s, k)
             [] t.fn = "handleOffer" -> handleOffer_withPc(s, k)
             [] OTHER -> establish_wait(s, k)
      ELSE CASE t.fn = "createOffer" ->
                  \* lines 476-484 with pc undefined
                  IF ok /\ s.dataChannels \in {"open", "connecting"}
                  THEN createOffer_finally(s, k)
                  ELSE createOffer_finally(Count(s, "thrown"), k)
             [] t.fn = "handleOffer" ->
                  \* lines 517-529 with pc undefined
                  IF ok /\ Truthy(s.makingOffer)
                  THEN Done(Count([s EXCEPT !.ignoreOffer =
                                     IF s.polite THEN "false" ELSE "true"],
                                  IF s.polite THEN "thrown" ELSE "ignored"), k)
                  ELSE Done(Count(s, "thrown"), k)
             [] OTHER -> IF ok THEN establish_wait(s, k) ELSE ensure_throw(s, k)

RECURSIVE ResumeFrom(_, _, _, _)
ResumeFrom(s, k, on, ok) ==
  IF k > Len(s.tasks) THEN s
  ELSE IF s.tasks[k].at = "await_pending" /\ s.tasks[k].on = on
       THEN ResumeFrom(Resume(s, k, on, ok), k + 1, on, ok)
       ELSE ResumeFrom(s, k + 1, on, ok)

\* Every task that awaits the promise resumes, in the order the tasks began.
ResumeWaiters(s, on, ok) == ResumeFrom(s, 1, on, ok)

\* The owner of _establishConnection's promise ends (lines 932-941), then the
\* calls that awaited pendingConnections.get(peer) resume (lines 911-916).
ensure_settle(s, k, ok) ==
  LET owner == s.tasks[k].on = "none"
      s1 == IF owner THEN [s EXCEPT !.pendingConnections = "none"] ELSE s
      s2 == IF ok THEN ensure_return(s1, k) ELSE ensure_throw(s1, k)
  IN  IF owner THEN ResumeWaiters(s2, "ec", ok) ELSE s2

\* One round of the polls of waitForChannel and waitForEncryptionKey (lines
\* 848-897); timeout: CONNECTION_TIMEOUT has passed.
wait_poll(s, k, timeout) ==
  LET t == s.tasks[k]
      ch == t.ch \/ s.dataChannels = "open"
      key == t.key \/ hasSharedSecret(s)
      dead == ~ch /\ t.pc # 0 /\ (~Current(s, t) \/ s.connections \in {"failed", "closed"})
  IN  IF dead \/ (timeout /\ ~(ch /\ key)) THEN ensure_settle(s, k, FALSE)
      ELSE IF ch /\ key THEN ensure_settle(s, k, TRUE)
      ELSE SetTask(s, k, [t EXCEPT !.ch = ch, !.key = key])

\* createConnection as called by task k (lines 251-262, 334): the handle of the
\* Map, the pending promise, or a new connectionPromise.
createConnection(s, k) ==
  IF Usable(s) THEN Resume(s, k, "cp", TRUE)
  ELSE IF s.pendingConnections # "none"
       THEN SetTask(s, k, [s.tasks[k] EXCEPT !.at = "await_pending",
                                             !.on = s.pendingConnections])
       ELSE At([s EXCEPT !.pendingConnections = "cp"], k, "await_fetch")

\* createOffer up to its first await (lines 469-474).
createOffer(s, caller) ==
  LET s1 == AddTask(Count([s EXCEPT !.makingOffer = "true"], "createOfferCalls"),
                    Task("createOffer", caller, 0))
  IN  createConnection(s1, Len(s1.tasks))

\* handleOffer up to its first await (lines 510-513).
handleOffer(s, m) ==
  LET s1 == AddTask(s, Task("handleOffer", "signaling", m.publicKey))
  IN  createConnection(s1, Len(s1.tasks))

\* connectionPromise resolves: the handle is created, then the task that began
\* it and the tasks that awaited it go on, in that order.
createConnection_resolve(s, k) ==
  LET s1 == createConnection_create(s)
      s2 == Resume(s1, k, "cp", TRUE)
  IN  ResumeWaiters(s2, "cp", TRUE)

\* _establishConnection up to its first await (lines 950-957).
_establishConnection(s, caller) ==
  IF s.dataChannels \in {"none", "closed"} THEN createOffer(s, caller)
  ELSE LET s1 == AddTask(s, Task("ensureConnection", caller, 0))
       IN  establish_wait(s1, Len(s1.tasks))

\* An ensureConnection that does not look at pendingConnections.
ensureConnectionNoDedup(s, caller) ==
  IF s.dataChannels = "open" /\ hasSharedSecret(s)
  THEN LET s1 == AddTask(s, Task("ensureConnection", caller, 0))
       IN  ensure_return(s1, Len(s1.tasks))
  ELSE [_establishConnection(s, caller) EXCEPT !.pendingConnections = "ec"]

\* ensureConnection up to its first await (lines 900-933).
ensureConnection(s, caller) ==
  IF s.dataChannels = "open" /\ hasSharedSecret(s)
  THEN LET s1 == AddTask(s, Task("ensureConnection", caller, 0))
       IN  ensure_return(s1, Len(s1.tasks))
  ELSE IF s.pendingConnections # "none"
       THEN AddTask(s, [Task("ensureConnection", caller, 0)
                          EXCEPT !.at = "await_pending", !.on = s.pendingConnections])
       ELSE [_establishConnection(s, caller) EXCEPT !.pendingConnections = "ec"]

\* A send that does not look at relayMode.
sendIgnoringRelayMode(s, caller) == ensureConnection(s, caller)

\* sendFile and sendText up to ensureConnection (lines 617-624, 822-829).
send(s, caller) ==
  LET s1 == IF s.obs.gaveUp THEN Count(s, "sendsAfterGiveUp") ELSE s
  IN  IF s.relayMode
      THEN LET s2 == AddTask(Count(s1, "relaySends"), Task("send", caller, 0))
           IN  send_relay(s2, Len(s2.tasks))
      ELSE ensureConnection(s1, caller)

\* sendFile(peer, file) with a file of the given size.
sendFile(s, size) == send([s EXCEPT !.arg = size], "sendFile")


\* ---------------------------------------------------------- ICE restart
\* _attemptIceRestart up to its await of the restart delay (lines 397-410).
AttemptWithoutBound(s) ==
  AddTask(Count([s EXCEPT !.iceRestartCounts = @ + 1], "attempts"),
          [Task("_attemptIceRestart", "ice", 0) EXCEPT !.at = "await_delay", !.pc = Cur(s)])

_attemptIceRestart(s) ==
  IF s.iceRestartCounts >= MAX_ICE_RESTARTS THEN s
  ELSE AddTask(Count([s EXCEPT !.iceRestartCounts = @ + 1], "attempts"),
               [Task("_attemptIceRestart", "ice", 0)
                  EXCEPT !.at = "await_delay", !.pc = Cur(s)])

\* Lines 413-426: the restart offer, after the delay.
attemptIceRestart_send(s, k) ==
  LET s1 == exportPublicKey(s)
  IN  IF Current(s, s.tasks[k]) /\ s.signalingState \in {"stable", "have-local-offer"}
      THEN Done(Count(Send([s1 EXCEPT !.signalingState = "have-local-offer"],
                           OfferMsg(s1.keyPair, TRUE)), "restartOffersSent"), k)
      ELSE Done(Count(s, "thrown"), k)

\* A handler that leaves the grace timer alone when the state changes.
IceChangeKeepsTimer(s) ==
  CASE s.iceConnectionState = "disconnected" -> setDisconnectedTimer(s)
    [] s.iceConnectionState = "failed" -> _attemptIceRestart(s)
    [] s.iceConnectionState \in {"connected", "completed"} ->
         Note([s EXCEPT !.iceRestartCounts = 0], "attempts", 0)
    [] OTHER -> s

\* _handleIceConnectionStateChange (lines 347-374), pc.iceConnectionState set.
_handleIceConnectionStateChange(s) ==
  LET s1 == clearDisconnectedTimer(s)
  IN  CASE s.iceConnectionState = "disconnected" -> setDisconnectedTimer(s1)
        [] s.iceConnectionState = "failed" -> _attemptIceRestart(s1)
        [] s.iceConnectionState \in {"connected", "completed"} ->
             Note([s1 EXCEPT !.iceRestartCounts = 0], "attempts", 0)
        [] OTHER -> s1

\* The grace timer's callback (lines 359-364).
disconnectedTimer_fires(s) ==
  LET s1 == [s EXCEPT !.disconnectedTimers = "fired", !.obs.timersPending = @ - 1,
                      !.obs.timerOf = 0]
  IN  IF s.iceConnectionState = "disconnected" THEN _attemptIceRestart(s1) ELSE s1

\* A change that never closes the session.
ConnectionStateChangeKeepsOpen(s) == s

\* _handleConnectionStateChange (lines 379-392), pc.connectionState set.
_handleConnectionStateChange(s) ==
  IF s.connections = "failed"
  THEN IF s.iceRestartCounts >= MAX_ICE_RESTARTS
       THEN Note(closeConnection(s), "gaveUp", TRUE)
       ELSE s
  ELSE IF s.connections = "closed" THEN closeConnection(s) ELSE s

\* pc.connectionState as the browser derives it from the ICE transport.
ConnectionStateOf(ice) ==
  CASE ice = "new" -> "new"
    [] ice = "checking" -> "connecting"
    [] ice \in {"connected", "completed"} -> "connected"
    [] OTHER -> ice

\* The ICE states the browser may report next.
IceNext(ice) ==
  CASE ice = "new" -> {"checking"}
    [] ice = "checking" -> {"connected", "disconnected", "failed"}
    [] ice = "connected" -> {"completed", "disconnected", "failed"}
    [] ice = "completed" -> {"disconnected", "failed"}
    [] ice = "disconnected" -> {"checking", "connected", "failed"}
    [] ice = "failed" -> {"checking"}
    [] OTHER -> {}

\* The browser reports ICE state st: iceconnectionstatechange fires, then
\* connectionstatechange when the derived state differs (lines 300-309).
iceStateChanges(s, st) ==
  LET s1 == _handleIceConnectionStateChange([s EXCEPT !.iceConnectionState = st])
  IN  IF ConnectionStateOf(st) = s.connections THEN s1
      ELSE _handleConnectionStateChange([s1 EXCEPT !.connections = ConnectionStateOf(st)])

\* channel.onopen (lines 452-456).
channel_onopen(s) == [s EXCEPT !.dataChannels = "open", !.relayMode = FALSE]


\* =============================================================== actions
TaskAt(e, k, fn, at) ==
  /\ k \in DOMAIN tasks[e]
  /\ tasks[e][k].fn = fn
  /\ tasks[e][k].at = at

\* setMyPeerId (lines 245-248), called once the endpoint has joined the room.
SetMyPeerId(e) ==
  /\ myPeerId[e] # assignedId[e]
  /\ Commit(e, [St(e) EXCEPT !.myPeerId = assignedId[e]], FALSE)

\* The application generates the session's key pair.
AppGeneratesKey(e) ==
  /\ keyPair[e] = 0
  /\ obs[e].keysGenerated = 0
  /\ Commit(e, generateKeyPair(St(e)), FALSE)

\* The application calls generateKeyPair(), whether or not a pair exists.
GenerateKeyPairCall(e) ==
  /\ obs[e].keysGenerated < MaxKeyCalls
  /\ Commit(e, generateKeyPair(St(e)), FALSE)

\* The application calls createOffer(peer).
CreateOfferCall(e) ==
  /\ obs[e].appCalls < MaxOffers
  /\ Commit(e, Count(createOffer(St(e), "app"), "appCalls"), FALSE)

\* fetchIceServers resolves inside createConnection.
FetchDone(e, k) ==
  /\ k \in DOMAIN tasks[e]
  /\ tasks[e][k].at = "await_fetch"
  /\ Commit(e, createConnection_resolve(St(e), k), FALSE)

CreateOfferSends(e, k) ==
  /\ TaskAt(e, k, "createOffer", "await_offer")
  /\ Commit(e, createOffer_send(St(e), k), FALSE)

\* The signaling service delivers the next message to the endpoint.
Deliver(e) ==
  /\ net[e] # <<>>
  /\ LET m == Head(net[e])
     IN  Commit(e, CASE m.type = "offer" -> handleOffer(St(e), m)
                     [] m.type = "answer" -> handleAnswer(St(e), m)
                     [] m.type = "relay-data" -> handleRelayData(St(e), m.data)
                     [] OTHER -> handleIceCandidate(St(e), m.candidate), TRUE)

OfferRollsBack(e, k) ==
  /\ TaskAt(e, k, "handleOffer", "await_rollback")
  /\ Commit(e, handleOffer_rollback(St(e), k), FALSE)

OfferRemoteSet(e, k) ==
  /\ TaskAt(e, k, "handleOffer", "await_remote")
  /\ \E implicit \in BOOLEAN :
       /\ implicit => signalingState[e] = "have-local-offer"
       /\ Commit(e, handleOffer_remote(St(e), k, implicit), FALSE)

OfferKeyImported(e, k) ==
  /\ TaskAt(e, k, "handleOffer", "await_key")
  /\ Commit(e, handleOffer_key(St(e), k), FALSE)

OfferAnswered(e, k) ==
  /\ TaskAt(e, k, "handleOffer", "await_answer")
  /\ Commit(e, handleOffer_answer(St(e), k), FALSE)

AnswerRemoteSet(e, k) ==
  /\ TaskAt(e, k, "handleAnswer", "await_remote")
  /\ Commit(e, handleAnswer_remote(St(e), k), FALSE)

AnswerKeyImported(e, k) ==
  /\ TaskAt(e, k, "handleAnswer", "await_key")
  /\ Commit(e, handleAnswer_key(St(e), k), FALSE)

FlushStep(e, k) ==
  /\ k \in DOMAIN tasks[e]
  /\ tasks[e][k].at = "flush"
  /\ Commit(e, flush_step(St(e), k), FALSE)

\* pc.onicecandidate (lines 281-283): candidates are gathered once a local
\* description is set.
CandidateGathered(e) ==
  /\ connections[e] # "none"
  /\ signalingState[e] = "have-local-offer"
       \/ (signalingState[e] = "stable" /\ remoteDescription[e])
  /\ obs[e].candSent < MaxCands
  /\ Commit(e, Count(Send(St(e), CandidateMsg(obs[e].candSent + 1)), "candSent"), FALSE)

\* The application calls ensureConnection(peer).
EnsureCall(e) ==
  /\ obs[e].appCalls < MaxCalls
  /\ Commit(e, Count(ensureConnection(St(e), "ensure"), "appCalls"), FALSE)

\* The application calls sendFile(peer, file) or sendText(peer, text).
SendCall(e) ==
  /\ obs[e].appCalls < MaxCalls
  /\ \E caller \in {"sendFile", "sendText"} :
       Commit(e, Count(send(St(e), caller), "appCalls"), FALSE)

WaitPoll(e, k) ==
  /\ TaskAt(e, k, "ensureConnection", "wait")
  /\ \E timeout \in BOOLEAN :
       LET s == wait_poll(St(e), k, timeout)
       IN  /\ s.tasks # tasks[e]
           /\ Commit(e, s, FALSE)

\* The data channel opens: both ends have applied the negotiated session.
ChannelOpens(e) ==
  /\ dataChannels[e] = "connecting"
  /\ \A x \in E : signalingState[x] = "stable" /\ remoteDescription[x]
  /\ Commit(e, channel_onopen(St(e)), FALSE)

\* The answering end is handed the channel and it opens (lines 318-320, 448-456).
ChannelReceived(e) ==
  /\ dataChannels[e] = "none"
  /\ connections[e] # "none"
  /\ dataChannels[Peer(e)] \in {"connecting", "open"}
  /\ \A x \in E : signalingState[x] = "stable" /\ remoteDescription[x]
  /\ Commit(e, channel_onopen(setupDataChannel(St(e))), FALSE)

\* The registered channel closes (lines 460-463).
ChannelCloses(e) ==
  /\ dataChannels[e] = "open"
  /\ obs[e].channelsClosed < MaxCloses
  /\ Commit(e, Count(channel_onclose(St(e)), "channelsClosed"), FALSE)

\* The close event of a channel that closeConnection closed is dispatched.
LateClose(e) ==
  \E id \in obs[e].closing :
    Commit(e, [channel_onclose(St(e)) EXCEPT !.obs.closing = @ \ {id}], FALSE)

\* The application calls closeConnection(peer).
CloseCall(e) ==
  /\ obs[e].closeCalls < MaxCloses
  /\ Commit(e, Count(closeConnection(St(e)), "closeCalls"), FALSE)

\* The application calls sendFile(peer, file).
SendFileCall(e) ==
  /\ obs[e].appCalls < MaxCalls
  /\ \E size \in Sizes : Commit(e, Count(sendFile(St(e), size), "appCalls"), FALSE)

\* sendFile's loop sends the next chunk.
SendChunk(e, k) ==
  /\ TaskAt(e, k, "sendFile", "await_chunk")
  /\ Commit(e, sendFile_chunk(St(e), k), FALSE)

SendDelayed(e, k) ==
  /\ TaskAt(e, k, "sendFile", "await_delay")
  /\ Commit(e, sendFile_delayed(St(e), k), FALSE)

\* channel.onmessage (line 458): the next message of the data channel.
ReceiveDirect(e) ==
  /\ chan[e] # <<>>
  /\ dataChannels[e] # "none"
  /\ Commit(e, [handleMessage(St(e), Head(chan[e])) EXCEPT !.popc = TRUE], FALSE)

\* A decryption settles.
DecryptDone(e, k) ==
  /\ k \in DOMAIN tasks[e]
  /\ tasks[e][k].at = "await_decrypt"
  /\ Commit(e, decrypt_done(St(e), k), FALSE)

\* The relay alters the chunk it is about to hand to the endpoint.
Alter(e) ==
  /\ net[e] # <<>>
  /\ Head(net[e]).type = "relay-data"
  /\ Head(net[e]).data.type = "chunk"
  /\ FromBase64(Head(net[e]).data.data).intact
  /\ net' = [net EXCEPT ![e][1].data.data.base64.intact = FALSE]
  /\ obs' = [obs EXCEPT ![e].altered = @ + 1]
  /\ UNCHANGED <<myPeerId, assignedId, connections, signalingState, remoteDescription,
                 iceConnectionState, makingOffer, ignoreOffer, pendingConnections,
                 dataChannels, pendingCandidates, iceRestartCounts, disconnectedTimers,
                 relayMode, keyPair, sharedSecrets, incomingTransfers, tasks, chan,
                 iceVars, frames, exports>>

\* The browser reports a new ICE state of the endpoint's handle.
IceChange(e, st) ==
  /\ connections[e] # "none"
  /\ st \in IceNext(iceConnectionState[e])
  /\ Commit(e, iceStateChanges(St(e), st), FALSE)

IceChangeCounted(e) ==
  /\ obs[e].iceEvents < MaxIceEvents
  /\ connections[e] # "none"
  /\ \E st \in IceNext(iceConnectionState[e]) :
       Commit(e, Count(iceStateChanges(St(e), st), "iceEvents"), FALSE)

GraceTimerFires(e) ==
  /\ disconnectedTimers[e] = "pending"
  /\ Commit(e, disconnectedTimer_fires(St(e)), FALSE)

RestartSends(e, k) ==
  /\ TaskAt(e, k, "_attemptIceRestart", "await_delay")
  /\ Commit(e, attemptIceRestart_send(St(e), k), FALSE)

\* ------------------------------------------------- traversal servers
\* A server of the directory: the schemes of its urls, and what probing its
\* first url resolves to in this environment.  The id is its place in the
\* directory's answer.
NoResult == [ok |-> FALSE, latency |-> 0]
Results == {NoResult} \cup {[ok |-> TRUE, latency |-> l] : l \in Latencies}

Descriptors ==
  {[urls |-> <<"stun:">>, probe |-> r] : r \in Results}
    \cup {[urls |-> u, probe |-> NoResult] : u \in {<<"turn:">>, <<"turns:", "stun:">>, <<"http:">>}}

ServerLists(n) ==
  {[i \in DOMAIN d |-> [id |-> i, urls |-> d[i].urls, probe |-> d[i].probe]] :
     d \in UNION {[1..k -> Descriptors] : k \in 0..n}}

FALLBACK_ICE_SERVERS == <<[id |-> 0, urls |-> <<"stun:">>, probe |-> NoResult]>>

\* checkStunServerHealth(url): { url, latency } on the first reflexive
\* candidate, null on the timeout, on the end of gathering and on an error.
checkStunServerHealth(server) == server.probe

isStun(server) == \E i \in DOMAIN server.urls : server.urls[i] = "stun:"
isTurn(server) == \E i \in DOMAIN server.urls : server.urls[i] \in {"turn:", "turns:"}

\* Array.prototype.sort with (a, b) => a.result.latency - b.result.latency:
\* the sort is stable, equal latencies keep their order.
RECURSIVE sortInsert(_, _)
sortInsert(r, sorted) ==
  IF sorted = <<>> THEN <<r>>
  ELSE IF r.result.latency - Head(sorted).result.latency < 0 THEN <<r>> \o sorted
  ELSE <<Head(sorted)>> \o sortInsert(r, Tail(sorted))

RECURSIVE sort(_)
sort(rs) ==
  IF rs = <<>> THEN <<>>
  ELSE sortInsert(rs[Len(rs)], sort(SubSeq(rs, 1, Len(rs) - 1)))

\* A ranking that keeps every reflexive-only server, in the directory's order.
rankWithoutProbing(iceServers) ==
  LET ranked == SelectSeq(iceServers, LAMBDA s : isTurn(s) \/ isStun(s))
  IN  IF Len(ranked) > 0 THEN ranked ELSE FALLBACK_ICE_SERVERS

\* A ranking that returns what is left, be it nothing.
rankWithoutFallback(iceServers) ==
  LET stunServers == SelectSeq(iceServers, LAMBDA s : ~isTurn(s) /\ isStun(s))
      results == [i \in 1..Len(stunServers) |->
                    [server |-> stunServers[i], result |-> checkStunServerHealth(stunServers[i])]]
      sorted == sort(SelectSeq(results, LAMBDA r : r.result.ok))
  IN  SelectSeq(iceServers, isTurn) \o [i \in 1..Len(sorted) |-> sorted[i].server]

rankIceServers(iceServers) ==
  LET turnServers == SelectSeq(iceServers, isTurn)
      stunServers == SelectSeq(iceServers, LAMBDA s : ~isTurn(s) /\ isStun(s))
      results == [i \in 1..Len(stunServers) |->
                    [server |-> stunServers[i], result |-> checkStunServerHealth(stunServers[i])]]
      sorted == sort(SelectSeq(results, LAMBDA r : r.result.ok))
      rankedStun == [i \in 1..Len(sorted) |-> sorted[i].server]
      ranked == turnServers \o rankedStun
  IN  IF Len(ranked) > 0 THEN ranked ELSE FALLBACK_ICE_SERVERS

\* The module's state as one record.
IceSt ==
  [cachedIceServers |-> cachedIceServers,
   cachedIceServersTimestamp |-> cachedIceServersTimestamp,
   iceServersFetchPromise |-> iceServersFetchPromise, fetches |-> fetches]

\* now: Date.now(); refreshes: the async functions of lines 159-189, by
\* number; calls: the calls of fetchIceServers made so far; iceServers and
\* ranked: the argument and the result of a call of rankIceServers.
IceInit ==
  [now |-> 0, ticks |-> 0, refreshes |-> <<>>, calls |-> <<>>,
   iceServers |-> <<>>, ranked |-> <<>>, rankedDone |-> FALSE]

RefreshesInFlight(g) == {i \in DOMAIN g.fetches.refreshes : g.fetches.refreshes[i].at # "done"}

\* A call is being made: what it finds.
FetchCall(g, forceRefresh) ==
  [forceRefresh |-> forceRefresh, during |-> RefreshesInFlight(g), at |-> g.fetches.now,
   cached |-> g.cachedIceServers, stamp |-> g.cachedIceServersTimestamp,
   on |-> 0, queried |-> FALSE, result |-> <<>>, settled |-> "pending"]

\* A refresh begins: the directory is queried (lines 159-164).
refresh_begins(g, call) ==
  LET id == Len(g.fetches.refreshes) + 1
  IN  [g EXCEPT !.iceServersFetchPromise = id,
                !.fetches.refreshes = Append(@, [at |-> "await_fetch", response |-> "none",
                                                 data |-> <<>>, result |-> <<>>]),
                !.fetches.calls = Append(@, [call EXCEPT !.on = id, !.queried = TRUE])]

\* A fetchIceServers that does not look for a pending refresh.
fetchWithoutPending(g, forceRefresh) ==
  IF /\ ~forceRefresh
     /\ g.cachedIceServers # <<>>
     /\ g.fetches.now - g.cachedIceServersTimestamp < ICE_SERVERS_CACHE_TTL
  THEN [g EXCEPT !.fetches.calls =
          Append(@, [FetchCall(g, forceRefresh) EXCEPT !.result = g.cachedIceServers,
                                                       !.settled = "fulfilled"])]
  ELSE refresh_begins(g, FetchCall(g, forceRefresh))

\* fetchIceServers(forceRefresh), up to its return (lines 148-157, 159, 191).
fetchIceServers(g, forceRefresh) ==
  LET now == g.fetches.now
      call == FetchCall(g, forceRefresh)
  IN  IF /\ ~forceRefresh
         /\ g.cachedIceServers # <<>>
         /\ now - g.cachedIceServersTimestamp < ICE_SERVERS_CACHE_TTL
      THEN [g EXCEPT !.fetches.calls =
              Append(@, [call EXCEPT !.result = g.cachedIceServers, !.settled = "fulfilled"])]
      ELSE IF g.iceServersFetchPromise # 0
      THEN [g EXCEPT !.fetches.calls = Append(@, [call EXCEPT !.on = g.iceServersFetchPromise])]
      ELSE refresh_begins(g, call)

\* The async function returns list: its finally clears the pending promise
\* (line 183), and every call that was given the promise receives the list.
refresh_returns(g, id, list) ==
  [g EXCEPT !.iceServersFetchPromise = 0,
            !.fetches.refreshes[id].at = "done",
            !.fetches.refreshes[id].result = list,
            !.fetches.calls = [i \in DOMAIN @ |->
                             IF @[i].on = id
                             THEN [@[i] EXCEPT !.result = list, !.settled = "fulfilled"]
                             ELSE @[i]]]

\* await fetch(...) settles (lines 164-167, 180-188): response is "ok",
\* "not_ok", "error" (the query failed) or "abort" (the 3 s timer fired).
fetch_settles(g, id, response) ==
  LET h == [g EXCEPT !.fetches.refreshes[id].response = response]
  IN  IF response = "ok" THEN [h EXCEPT !.fetches.refreshes[id].at = "await_json"]
      ELSE refresh_returns(h, id, FALLBACK_ICE_SERVERS)

\* await response.json() settles and data.iceServers is read (lines 168-172);
\* a body that is no JSON, or has no iceServers, throws: bad.
json_settles(g, id, bad, iceServers) ==
  IF bad THEN refresh_returns([g EXCEPT !.fetches.refreshes[id].response = "bad"],
                              id, FALLBACK_ICE_SERVERS)
  ELSE [g EXCEPT !.fetches.refreshes[id].at = "await_rank", !.fetches.refreshes[id].data = iceServers]

\* await rankIceServers(...) settles (lines 172-178).
rank_settles(g, id) ==
  LET rankedServers == rankIceServers(g.fetches.refreshes[id].data)
      h == [g EXCEPT !.cachedIceServers = rankedServers,
                     !.cachedIceServersTimestamp = g.fetches.now]
  IN  refresh_returns(h, id, h.cachedIceServers)

peerVars == <<myPeerId, assignedId, connections, signalingState, remoteDescription,
              iceConnectionState, makingOffer, ignoreOffer, pendingConnections,
              dataChannels, pendingCandidates, iceRestartCounts, disconnectedTimers,
              relayMode, keyPair, sharedSecrets, incomingTransfers, tasks, net, chan, obs>>

CommitIce(g) ==
  /\ cachedIceServers' = g.cachedIceServers
  /\ cachedIceServersTimestamp' = g.cachedIceServersTimestamp
  /\ iceServersFetchPromise' = g.iceServersFetchPromise
  /\ fetches' = g.fetches
  /\ UNCHANGED <<peerVars, frames, exports>>

\* rankIceServers is called with the list drawn.
RankCall ==
  /\ ~fetches.rankedDone
  /\ CommitIce([IceSt EXCEPT !.fetches.ranked = rankIceServers(fetches.iceServers),
                             !.fetches.rankedDone = TRUE])

FetchIceServersCall(forceRefresh) ==
  /\ Len(fetches.calls) < MaxFetchCalls
  /\ CommitIce(fetchIceServers(IceSt, forceRefresh))

RefreshAt(id, at) == id \in DOMAIN fetches.refreshes /\ fetches.refreshes[id].at = at

FetchSettles(id) ==
  /\ RefreshAt(id, "await_fetch")
  /\ \E response \in {"ok", "not_ok", "error", "abort"} :
       CommitIce(fetch_settles(IceSt, id, response))

JsonSettles(id) ==
  /\ RefreshAt(id, "await_json")
  /\ \/ CommitIce(json_settles(IceSt, id, TRUE, <<>>))
     \/ \E iceServers \in ServerLists(1) :
          CommitIce(json_settles(IceSt, id, FALSE, iceServers))

RankSettles(id) ==
  /\ RefreshAt(id, "await_rank")
  /\ CommitIce(rank_settles(IceSt, id))

\* Time passes: a moment, or as long as a cached list lives.
Tick ==
  /\ fetches.ticks < MaxTicks
  /\ \E d \in {1, ICE_SERVERS_CACHE_TTL} :
       CommitIce([IceSt EXCEPT !.fetches.now = @ + d, !.fetches.ticks = @ + 1])

\* ------------------------------------------------- frames, byte by byte
\* AES-GCM as terms: a ciphertext byte is determined by the key, the IV, its
\* place and the plaintext byte; the tag by the key, the IV and the plaintext.
\* Every element of a frame is a tuple of numbers: <<b>> is the IV byte b.
Bytes == 0..MaxByte
Plains == UNION {[1..n -> Bytes] : n \in 0..MaxPlain}
IVs == {[i \in 1..IV_LENGTH |-> b] : b \in Bytes}

CipherByte(key, iv, i, p) == <<key, i, p>> \o iv
Tag(key, iv, plain) == <<key, 0, 0>> \o iv \o plain
Junk == <<0, 0, 0>>

\* crypto.subtle.encrypt with AES-GCM (lines 92-99): the ciphertext, then the tag.
encrypt(key, iv, data) ==
  [i \in 1..Len(data) |-> CipherByte(key, iv, i, data[i])] \o <<Tag(key, iv, data)>>

NotDecrypted == [ok |-> FALSE, plain |-> <<>>]

\* The plaintext that the ciphertext bytes stand for under key and iv.
Recover(key, iv, body) ==
  [i \in 1..Len(body) |->
     IF \E p \in Bytes : body[i] = CipherByte(key, iv, i, p)
     THEN CHOOSE p \in Bytes : body[i] = CipherByte(key, iv, i, p)
     ELSE MaxByte + 1]

\* A decrypt that does not verify the tag.
decryptUnverified(key, data, iv) ==
  IF data = <<>> THEN NotDecrypted
  ELSE [ok |-> TRUE, plain |-> Recover(key, iv, SubSeq(data, 1, Len(data) - 1))]

\* crypto.subtle.decrypt with AES-GCM (lines 117-126): it rejects unless the
\* tag is the one of the key, the IV and the plaintext recovered.
decrypt(key, data, iv) ==
  IF data = <<>> THEN NotDecrypted
  ELSE LET plain == Recover(key, iv, SubSeq(data, 1, Len(data) - 1))
       IN  IF data[Len(data)] = Tag(key, iv, plain)
           THEN [ok |-> TRUE, plain |-> plain]
           ELSE NotDecrypted

\* encryptChunk's frame (lines 139-143): the IV, then the encrypted data.
encryptChunkFrame(key, iv, chunk) ==
  [i \in 1..Len(iv) |-> <<iv[i]>>] \o encrypt(key, iv, chunk)

\* decryptChunk (lines 152-158): slice(0, 12) is the IV, slice(12) the rest.
decryptChunkFrame(key, data) ==
  LET n == Min(IV_LENGTH, Len(data))
      iv == [i \in 1..n |-> data[i][1]]
      encrypted == SubSeq(data, n + 1, Len(data))
  IN  decrypt(key, encrypted, iv)

\* The elements that may stand at place j of an altered frame.
ElementsAt(f, j) ==
  IF j <= IV_LENGTH THEN {<<b>> : b \in Bytes}
  ELSE IF j < Len(f.frame)
       THEN {CipherByte(f.key, f.iv, j - IV_LENGTH, p) : p \in Bytes} \cup {Junk}
       ELSE {Tag(f.key, f.iv, pl) : pl \in Plains} \cup {Junk}

FramesInit ==
  [stage |-> "none", key |-> 0, plain |-> <<>>, iv |-> <<>>, frame |-> <<>>,
   altered |-> FALSE, out |-> NotDecrypted]

\* encryptChunk(peer, chunk) under the peer's stored key, with a fresh IV.
EncryptChunk ==
  /\ frames.stage = "drawn"
  /\ \E iv \in IVs :
       frames' = [frames EXCEPT !.stage = "encrypted", !.iv = iv,
                                !.frame = encryptChunkFrame(frames.key, iv, frames.plain)]
  /\ UNCHANGED <<peerVars, iceVars, exports>>

\* One element of the frame is replaced on the way.
AlterFrame ==
  /\ frames.stage = "encrypted"
  /\ ~frames.altered
  /\ \E j \in DOMAIN frames.frame : \E x \in ElementsAt(frames, j) \ {frames.frame[j]} :
       frames' = [frames EXCEPT !.frame[j] = x, !.altered = TRUE]
  /\ UNCHANGED <<peerVars, iceVars, exports>>

\* decryptChunk(peer, frame) under the same stored key.
DecryptChunk ==
  /\ frames.stage = "encrypted"
  /\ frames' = [frames EXCEPT !.stage = "decrypted",
                              !.out = decryptChunkFrame(frames.key, frames.frame)]
  /\ UNCHANGED <<peerVars, iceVars, exports>>

\* ------------------------------------- cryptoManager with several peers
\* The one cryptoManager of the page (part_000 line 225) serves every peer.
\* Each peer of 1..MaxPeers gets one offer: createOffer awaits exportPublicKey
\* (webrtc.js line 487), the peer derives its key from the public key in the
\* offer, and its answer brings importPeerPublicKey (line 583).  calls[p].at is
\* the await the exchange with p is suspended at, calls[p].pub the pair whose
\* public key was handed to exportKey; derived[p] is <<peer's pair, pair
\* received>> at the peer; sharedSecrets[p] is <<own pair, peer's pair>>.
Remotes == 1..MaxPeers

\* The identity pair of peer p, apart from every pair generated here.
RemotePair(p) == 0 - p

ExportsInit ==
  [keyPair |-> 0, generated |-> 0,
   calls |-> [p \in Remotes |-> [at |-> "idle", pub |-> 0]],
   derived |-> [p \in Remotes |-> <<>>],
   sharedSecrets |-> [p \in Remotes |-> <<>>]]

\* Line 35: exportKey is given this.keyPair.publicKey as it is now.
exportKey_called(x, p) ==
  [x EXCEPT !.calls[p].at = "exportKey", !.calls[p].pub = x.keyPair]

\* exportPublicKey up to its first await (lines 31-35): generateKeyPair is
\* called when there is no pair, and crypto.subtle.generateKey is awaited.
exportPublicKey_begins(x, p) ==
  IF x.keyPair = 0 THEN [x EXCEPT !.calls[p].at = "generateKey"]
  ELSE exportKey_called(x, p)

\* generateKey has resolved (lines 16-24): the pair is stored whatever
\* this.keyPair holds by now, and exportPublicKey goes on to line 35.
generateKey_resolves(x, p) ==
  exportKey_called([x EXCEPT !.generated = @ + 1, !.keyPair = x.generated + 1], p)

\* exportKey has resolved (line 36); the offer carries the key (webrtc.js
\* lines 493-497) and the peer derives its shared key from it.
exportKey_resolves(x, p) ==
  [x EXCEPT !.calls[p].at = "sent",
            !.derived[p] = <<RemotePair(p), x.calls[p].pub>>]

\* importPeerPublicKey up to its first await, importKey (lines 45-56).
importPeerPublicKey_begins(x, p) == [x EXCEPT !.calls[p].at = "importKey"]

\* importKey has resolved: deriveKey is given this.keyPair.privateKey as it is
\* now, and the result is stored for the peer (lines 59-74).
importKey_resolves(x, p) ==
  [x EXCEPT !.calls[p].at = "done",
            !.sharedSecrets[p] = <<x.keyPair, RemotePair(p)>>]

CommitExports(x) ==
  /\ exports' = x
  /\ UNCHANGED <<peerVars, iceVars, frames>>

ExportPublicKeyCall(p) ==
  /\ exports.calls[p].at = "idle"
  /\ CommitExports(exportPublicKey_begins(exports, p))

GenerateKeyResolves(p) ==
  /\ exports.calls[p].at = "generateKey"
  /\ CommitExports(generateKey_resolves(exports, p))

ExportKeyResolves(p) ==
  /\ exports.calls[p].at = "exportKey"
  /\ CommitExports(exportKey_resolves(exports, p))

ImportPeerPublicKeyCall(p) ==
  /\ exports.calls[p].at = "sent"
  /\ CommitExports(importPeerPublicKey_begins(exports, p))

ImportKeyResolves(p) ==
  /\ exports.calls[p].at = "importKey"
  /\ CommitExports(importKey_resolves(exports, p))


\* ================================================================= Init
ObsInit ==
  [handlesCreated |-> 0, keysGenerated |-> 0, createOfferCalls |-> 0, appCalls |-> 0,
   offersSent |-> 0, answersSent |-> 0, rollbacks |-> 0, impoliteRollbacks |-> 0,
   ignored |-> 0, glare |-> 0, answersApplied |-> 0, answersDropped |-> 0, thrown |-> 0,
   candSent |-> 0, candReceived |-> {}, candApplied |-> <<>>, candRejected |-> {},
   attempts |-> 0, restartOffersSent |-> 0, iceEvents |-> 0, gaveUp |-> FALSE,
   sendsAfterGiveUp |-> 0, directSends |-> 0, relaySends |-> 0,
   filesStarted |-> 0, emitted |-> <<>>, transfersStarted |-> 0, filesReceived |-> <<>>,
   textsReceived |-> 0, decryptFailed |-> 0, orphanChunks |-> 0, relayFlips |-> 0,
   sendTransportErrors |-> 0, sendCryptoErrors |-> 0, caughtTransportErrors |-> 0,
   notifiedRelay |-> 0, altered |-> 0, failedIn |-> {}, returned |-> {}, closeCalls |-> 0, channelsClosed |-> 0,
   timersPending |-> 0, timerCleared |-> FALSE, timerOf |-> 0, progress |-> <<>>,
   channelsMade |-> 0, registered |-> 0, closing |-> {}, closes |-> 0,
   ensured |-> 0, ensureFailed |-> 0]

\* The managers as constructed (lines 207-230; CryptoManager lines 7-10).
ConstructedPeers ==
  /\ connections = [e \in E |-> "none"]
  /\ signalingState = [e \in E |-> "closed"]
  /\ remoteDescription = [e \in E |-> FALSE]
  /\ iceConnectionState = [e \in E |-> "closed"]
  /\ makingOffer = [e \in E |-> "unset"]
  /\ ignoreOffer = [e \in E |-> "unset"]
  /\ pendingConnections = [e \in E |-> "none"]
  /\ dataChannels = [e \in E |-> "none"]
  /\ pendingCandidates = [e \in E |-> <<>>]
  /\ iceRestartCounts = [e \in E |-> 0]
  /\ disconnectedTimers = [e \in E |-> "none"]
  /\ relayMode = [e \in E |-> FALSE]
  /\ keyPair = [e \in E |-> 0]
  /\ sharedSecrets = [e \in E |-> <<>>]
  /\ exports = ExportsInit
  /\ incomingTransfers = [e \in E |-> NoTransfer]
  /\ tasks = [e \in E |-> <<>>]
  /\ net = [e \in E |-> <<>>]
  /\ chan = [e \in E |-> <<>>]
  /\ obs = [e \in E |-> ObsInit]

\* The module as loaded: no cached list, no pending refresh (lines 22-24).
Loaded ==
  /\ cachedIceServers = <<>>
  /\ cachedIceServersTimestamp = 0
  /\ iceServersFetchPromise = 0

Constructed == ConstructedPeers /\ Loaded /\ fetches = IceInit /\ frames = FramesInit

\* Both endpoints have joined the room: "a" has the smaller id, it is polite.
Init ==
  /\ Constructed
  /\ assignedId = [e \in E |-> IF e = "a" THEN <<1>> ELSE <<2>>]
  /\ myPeerId = assignedId

\* ------------------------------------------------ negotiation, both ends
Tasks == 1..(MaxOffers + MaxCalls + 3)

Next ==
  \E e \in E :
    \/ AppGeneratesKey(e)
    \/ CreateOfferCall(e)
    \/ Deliver(e)
    \/ \E k \in Tasks :
         \/ FetchDone(e, k)
         \/ CreateOfferSends(e, k)
         \/ OfferRollsBack(e, k)
         \/ OfferRemoteSet(e, k)
         \/ OfferKeyImported(e, k)
         \/ OfferAnswered(e, k)
         \/ AnswerRemoteSet(e, k)
         \/ AnswerKeyImported(e, k)

Spec == Init /\ [][Next]_vars

\* No endpoint has more suspended tasks than the actions look at.
TasksInRange == \A e \in E : Len(tasks[e]) <= MaxOffers + MaxCalls + 3


\* ------------------------------------------------------ role assignment
\* The endpoints are constructed and join a room that gives them any two
\* distinct ids.
InitPolite ==
  /\ Constructed
  /\ assignedId \in [E -> PeerIds]
  /\ assignedId["a"] # assignedId["b"]
  /\ myPeerId = [e \in E |-> <<>>]

NextPolite == \E e \in E : SetMyPeerId(e)

SpecPolite == InitPolite /\ [][NextPolite]_vars

\* ------------------------------------------- overlapping ensureConnection
\* The application of "a" calls ensureConnection at any moments; "b" answers.
NextEnsure ==
  \/ EnsureCall("a")
  \/ \E e \in E :
       \/ AppGeneratesKey(e)
       \/ Deliver(e)
       \/ ChannelOpens(e)
       \/ \E k \in Tasks :
            \/ FetchDone(e, k)
            \/ CreateOfferSends(e, k)
            \/ WaitPoll(e, k)
            \/ OfferRemoteSet(e, k)
            \/ OfferKeyImported(e, k)
            \/ OfferAnswered(e, k)
            \/ AnswerRemoteSet(e, k)
            \/ AnswerKeyImported(e, k)

SpecEnsure == Init /\ [][NextEnsure]_vars

\* --------------------------------- a remote offer during ensureConnection
\* As above, and "b" may start an offer of its own at any moment.
NextInbound ==
  \/ NextEnsure
  \/ CreateOfferCall("b")

SpecInbound == Init /\ [][NextInbound]_vars

\* ------------------------------------------------------ ICE candidates
\* "b" offers and "a" answers; each signals the candidates it gathers.
NextCand ==
  \/ CreateOfferCall("b")
  \/ \E e \in E :
       \/ AppGeneratesKey(e)
       \/ Deliver(e)
       \/ CandidateGathered(e)
       \/ \E k \in Tasks :
            \/ FetchDone(e, k)
            \/ CreateOfferSends(e, k)
            \/ OfferRemoteSet(e, k)
            \/ OfferKeyImported(e, k)
            \/ OfferAnswered(e, k)
            \/ AnswerRemoteSet(e, k)
            \/ AnswerKeyImported(e, k)
            \/ FlushStep(e, k)

SpecCand == Init /\ [][NextCand]_vars

\* ---------------------------------------------------------- ICE restart
\* "a" opens a session and sends; the browser reports any ICE states of its
\* handle, and the timers of the restart logic fire.
NextRestart ==
  \/ CreateOfferCall("a")
  \/ SendCall("a")
  \/ IceChangeCounted("a")
  \/ GraceTimerFires("a")
  \/ \E k \in Tasks :
       \/ FetchDone("a", k)
       \/ CreateOfferSends("a", k)
       \/ WaitPoll("a", k)
       \/ RestartSends("a", k)

SpecRestart == Init /\ [][NextRestart]_vars

\* ICE keeps failing: "a" opens one session and "b" answers its offers, but
\* the handle of "a" never reaches connected or completed, and whenever it can
\* fail again it eventually does.  The handle is not replaced meanwhile.
IceKeepsFailing(e) == \E st \in {"checking", "disconnected", "failed"} : IceChange(e, st)

\* ICE starts checking and fails.
IceFails(e) == \E st \in {"checking", "failed"} : IceChange(e, st)

\* The application calls createOffer(peer) while the peer has had no handle.
OpensSession(e) ==
  /\ obs[e].handlesCreated = 0
  /\ CreateOfferCall(e)

NextFailing ==
  \/ OpensSession("a")
  \/ IceKeepsFailing("a")
  \/ GraceTimerFires("a")
  \/ \E k \in Tasks : CreateOfferSends("a", k) \/ RestartSends("a", k)
  \/ \E e \in E :
       \/ AppGeneratesKey(e)
       \/ Deliver(e)
       \/ \E k \in Tasks :
            \/ FetchDone(e, k)
            \/ OfferRemoteSet(e, k)
            \/ OfferKeyImported(e, k)
            \/ OfferAnswered(e, k)
            \/ AnswerRemoteSet(e, k)
            \/ AnswerKeyImported(e, k)

SpecFailing ==
  /\ Init
  /\ [][NextFailing]_vars
  /\ SF_vars(IceChange("a", "failed"))

\* ------------------------------------------------ ensureConnection's waits
\* "a" calls ensureConnection; "b" may answer, the channel may open, ICE may
\* fail, each at any moment or never.  The event loop of "a" runs what is
\* ready: the ICE server list arrives, createOffer goes on, and the timers of
\* the two waits fire.
NextWaits ==
  \/ NextEnsure
  \/ IceFails("a")

EventLoop(e) ==
  \E k \in Tasks : FetchDone(e, k) \/ CreateOfferSends(e, k) \/ WaitPoll(e, k)

SpecWaits == Init /\ [][NextWaits]_vars /\ WF_vars(EventLoop("a"))

\* ----------------------------------------------------- direct or relayed
\* "a" sends texts and empty files to "b", which answers "a"'s offer.
NextRelay ==
  \/ SendCall("a")
  \/ ChannelOpens("a")
  \/ ChannelReceived("b")
  \/ ReceiveDirect("b")
  \/ \E e \in E :
       \/ AppGeneratesKey(e)
       \/ Deliver(e)
       \/ \E k \in Tasks :
            \/ FetchDone(e, k)
            \/ CreateOfferSends(e, k)
            \/ WaitPoll(e, k)
            \/ OfferRemoteSet(e, k)
            \/ OfferKeyImported(e, k)
            \/ OfferAnswered(e, k)
            \/ AnswerRemoteSet(e, k)
            \/ AnswerKeyImported(e, k)

SpecRelay == Init /\ [][NextRelay]_vars

\* ---------------------------------------------- closeConnection by the app
\* As above, and the sending application may call closeConnection at any
\* moment.
NextClose ==
  \/ NextRelay
  \/ CloseCall("a")

SpecClose == Init /\ [][NextClose]_vars

\* ------------------------------------------------ channels and their close
\* "a" calls closeConnection once; the close event of the channel it closed
\* arrives at any later moment, or never; an open channel may close by itself.
FirstClose(e) == obs[e].closeCalls = 0 /\ CloseCall(e)

NextChannels ==
  \/ NextRelay
  \/ FirstClose("a")
  \/ LateClose("a")
  \/ ChannelCloses("a")

SpecChannels == Init /\ [][NextChannels]_vars

\* ------------------------------------------------------------ transfers
\* "a" sends one file to "b", which answers "a"'s offer; the file goes on the
\* data channel or on the relay, and the relay may alter a chunk.
XferTasks == 1..(MaxOffers + MaxCalls * (MaxFull + 3) + 3)

\* The application sends its first file.
FirstFile(e) == obs[e].appCalls = 0 /\ SendFileCall(e)

NextTransfer ==
  \/ FirstFile("a")
  \/ Alter("b")
  \/ ChannelOpens("a")
  \/ ChannelReceived("b")
  \/ ReceiveDirect("b")
  \/ \E e \in E :
       \/ AppGeneratesKey(e)
       \/ Deliver(e)
       \/ \E k \in XferTasks :
            \/ FetchDone(e, k)
            \/ CreateOfferSends(e, k)
            \/ WaitPoll(e, k)
            \/ OfferRemoteSet(e, k)
            \/ OfferKeyImported(e, k)
            \/ OfferAnswered(e, k)
            \/ AnswerRemoteSet(e, k)
            \/ AnswerKeyImported(e, k)
            \/ SendChunk(e, k)
            \/ SendDelayed(e, k)
            \/ DecryptDone(e, k)

SpecTransfer == Init /\ [][NextTransfer]_vars

\* ------------------------------------------------- overlapping transfers
\* The application sends another file while a sendFile is in its chunk loop
\* on the open data channel.
FileDuringFile(e) ==
  /\ dataChannels[e] = "open"
  /\ ~relayMode[e]
  /\ \E k \in DOMAIN tasks[e] : tasks[e][k].fn = "sendFile"
  /\ SendFileCall(e)

NextOverlap ==
  \/ FirstFile("a")
  \/ FileDuringFile("a")
  \/ ChannelOpens("a")
  \/ ChannelReceived("b")
  \/ ReceiveDirect("b")
  \/ \E e \in E :
       \/ AppGeneratesKey(e)
       \/ Deliver(e)
       \/ \E k \in XferTasks :
            \/ FetchDone(e, k)
            \/ CreateOfferSends(e, k)
            \/ WaitPoll(e, k)
            \/ OfferRemoteSet(e, k)
            \/ OfferKeyImported(e, k)
            \/ OfferAnswered(e, k)
            \/ AnswerRemoteSet(e, k)
            \/ AnswerKeyImported(e, k)
            \/ SendChunk(e, k)
            \/ SendDelayed(e, k)
            \/ DecryptDone(e, k)

SpecOverlap == Init /\ [][NextOverlap]_vars

\* ------------------------------------------------------ a channel closes
\* "a" sends one file to "b"; the data channel of "a" may close at any moment.
NextBreak ==
  \/ FirstFile("a")
  \/ ChannelCloses("a")
  \/ ChannelOpens("a")
  \/ ChannelReceived("b")
  \/ ReceiveDirect("b")
  \/ \E e \in E :
       \/ AppGeneratesKey(e)
       \/ Deliver(e)
       \/ \E k \in XferTasks :
            \/ FetchDone(e, k)
            \/ CreateOfferSends(e, k)
            \/ WaitPoll(e, k)
            \/ OfferRemoteSet(e, k)
            \/ OfferKeyImported(e, k)
            \/ OfferAnswered(e, k)
            \/ AnswerRemoteSet(e, k)
            \/ AnswerKeyImported(e, k)
            \/ SendChunk(e, k)
            \/ SendDelayed(e, k)
            \/ DecryptDone(e, k)

SpecBreak == Init /\ [][NextBreak]_vars

\* ------------------------------------------------ the identity key pair
\* The negotiation of both ends, and "a" calls generateKeyPair at any moment.
NextKeys ==
  \/ GenerateKeyPairCall("a")
  \/ Next

SpecKeys == Init /\ [][NextKeys]_vars

\* ------------------------------------------- one identity, several peers
\* Offers to MaxPeers peers are started at any moments; every await of the
\* key export and of the key import resolves at any later moment.
NextExports ==
  \E p \in Remotes :
    \/ ExportPublicKeyCall(p)
    \/ GenerateKeyResolves(p)
    \/ ExportKeyResolves(p)
    \/ ImportPeerPublicKeyCall(p)
    \/ ImportKeyResolves(p)

SpecExports == Init /\ [][NextExports]_vars

\* ------------------------------------------- a chunk, there and back
\* Any chunk of at most MaxPlain bytes, under either of two stored keys.
InitFrames ==
  /\ ConstructedPeers
  /\ Loaded
  /\ fetches = IceInit
  /\ assignedId = [e \in E |-> IF e = "a" THEN <<1>> ELSE <<2>>]
  /\ myPeerId = assignedId
  /\ frames \in {[FramesInit EXCEPT !.stage = "drawn", !.key = k, !.plain = p] :
                   k \in 1..2, p \in Plains}

NextFrames == EncryptChunk \/ AlterFrame \/ DecryptChunk

SpecFrames == InitFrames /\ [][NextFrames]_vars

\* ------------------------------------------------ ranking, on any list
\* rankIceServers is given any list of at most MaxServers servers, probed
\* with any outcomes.
InitRank ==
  /\ ConstructedPeers
  /\ Loaded
  /\ assignedId = [e \in E |-> IF e = "a" THEN <<1>> ELSE <<2>>]
  /\ myPeerId = assignedId
  /\ fetches \in {[IceInit EXCEPT !.iceServers = l] : l \in ServerLists(MaxServers)}
  /\ frames = FramesInit

NextRank == RankCall

SpecRank == InitRank /\ [][NextRank]_vars

\* ------------------------------------------- the calls of fetchIceServers
Refreshes == 1..MaxFetchCalls

NextIce ==
  \/ FetchIceServersCall(FALSE)
  \/ FetchIceServersCall(TRUE)
  \/ Tick
  \/ \E id \in Refreshes :
       \/ FetchSettles(id)
       \/ JsonSettles(id)
       \/ RankSettles(id)

SpecIce == Init /\ [][NextIce]_vars


\* ================================================================ claims
\* Nothing is suspended and nothing is on its way.
Quiescent == \A e \in E : tasks[e] = <<>> /\ net[e] = <<>>

\* Each endpoint sent its offer and had it outstanding when the other's arrived.
Glare == \A e \in E : obs[e].offersSent = 1 /\ obs[e].glare = 1

\* C1: when both endpoints send an offer to each other at the same time, the
\* exchange ends in one agreed session: exactly one of the two offers is
\* answered, its answer is applied by the endpoint that made it, and the other
\* offer is discarded.
C1_GlareEndsInOneSession ==
  (Quiescent /\ Glare) =>
     \E e \in E :
        /\ obs[e].answersSent = 1
        /\ obs[Peer(e)].answersApplied = 1
        /\ obs[Peer(e)].answersSent = 0

\* C2: an impolite endpoint never rolls its own offer back: a rollback of the
\* local offer is performed by the polite endpoint only.
C2_OnlyPoliteRollsBack == \A e \in E : obs[e].impoliteRollbacks = 0

\* C4: while a createOffer is suspended, between its start and its offer being
\* sent or failing, makingOffer is true.
C4_MakingOfferWhileSuspended ==
  \A e \in E : \A k \in DOMAIN tasks[e] :
     tasks[e][k].fn = "createOffer" => Truthy(makingOffer[e])

\* C7: an answer that arrives when the endpoint has no handle or is not in
\* have-local-offer is dropped: no setRemoteDescription is started, nothing is
\* thrown, and the signaling state, the remote description, the shared secret
\* and the candidate buffer stay as they are; an answer is applied in
\* have-local-offer only.
AnswerDelivered(e) ==
  /\ net[e] # <<>>
  /\ Head(net[e]).type = "answer"
  /\ net'[e] = Tail(net[e])

C7_AnswerOnlyInHaveLocalOffer ==
  [][\A e \in E :
       /\ (AnswerDelivered(e)
             /\ (connections[e] = "none" \/ signalingState[e] # "have-local-offer"))
          => /\ signalingState'[e] = signalingState[e]
             /\ remoteDescription'[e] = remoteDescription[e]
             /\ sharedSecrets'[e] = sharedSecrets[e]
             /\ pendingCandidates'[e] = pendingCandidates[e]
             /\ tasks'[e] = tasks[e]
             /\ obs'[e].thrown = obs[e].thrown
             /\ obs'[e].answersDropped = obs[e].answersDropped + 1
       /\ obs'[e].answersApplied > obs[e].answersApplied
          => signalingState[e] = "have-local-offer"]_vars

\* An answer was dropped at one endpoint and an answer was applied at one.
C7_Witness ==
  /\ \E e \in E : obs[e].answersDropped > 0
  /\ \E e \in E : obs[e].answersApplied > 0


\* C5: of two endpoints that know their distinct ids, exactly one computes
\* itself as polite toward the other, whichever of the two ids each has.
BothIdsSet == \A e \in E : myPeerId[e] = assignedId[e]

C5_ExactlyOnePolite == BothIdsSet => (_isPolite("a") # _isPolite("b"))

\* Both ids are set, they start with the same code unit, and "b" is the
\* polite one.
C5_Witness ==
  /\ BothIdsSet
  /\ \A e \in E : myPeerId[e] # <<>>
  /\ Head(myPeerId["a"]) = Head(myPeerId["b"])
  /\ _isPolite("b")


\* C3: however many ensureConnection calls overlap, the endpoint creates at
\* most one handle, sends at most one offer, and no call but the first starts
\* a createOffer of its own.
C3_SingleNegotiation ==
  /\ obs["a"].handlesCreated <= 1
  /\ obs["a"].offersSent <= 1
  /\ obs["a"].createOfferCalls <= 1

InFlight(e) == {k \in DOMAIN tasks[e] : tasks[e][k].caller = "ensure"}

\* Two ensureConnection calls are in flight at once, one handle exists and its
\* offer has been sent.
C3_Witness ==
  /\ Cardinality(InFlight("a")) >= 2
  /\ obs["a"].handlesCreated = 1
  /\ obs["a"].offersSent = 1


\* The candidates a flush of the endpoint has still to hand to the transport.
Range(seq) == {seq[j] : j \in DOMAIN seq}

BeingFlushed(e) ==
  UNION { LET t == tasks[e][k]
              arr == IF t.shared THEN pendingCandidates[e] ELSE t.arr
          IN  {arr[j] : j \in {x \in DOMAIN arr : x >= t.i}}
          : k \in {x \in DOMAIN tasks[e] : tasks[e][x].at = "flush"} }

\* C6: a candidate that has arrived is in the buffer, or is being flushed, or
\* has been applied; none is handed to a transport that has no remote
\* description, and none is lost.
C6_NoCandidateLost ==
  \A e \in E :
    /\ obs[e].candRejected = {}
    /\ obs[e].candReceived \subseteq
         (Range(pendingCandidates[e]) \cup BeingFlushed(e) \cup Range(obs[e].candApplied))


\* C8: the restart attempts started since the handle was created or since ICE
\* last reached connected or completed never exceed MAX_ICE_RESTARTS, and the
\* count is zero whenever ICE is connected or completed.
C8_RestartsBounded ==
  \A e \in E :
    /\ obs[e].attempts <= MAX_ICE_RESTARTS
    /\ iceRestartCounts[e] <= MAX_ICE_RESTARTS
    /\ iceConnectionState[e] \in {"connected", "completed"}
         => iceRestartCounts[e] = 0 /\ obs[e].attempts = 0

\* The bound is reached on an open handle, after an earlier attempt was
\* forgotten when ICE connected.
C8_Witness ==
  /\ connections["a"] # "none"
  /\ obs["a"].attempts = MAX_ICE_RESTARTS
  /\ obs["a"].restartOffersSent > MAX_ICE_RESTARTS

\* C9: if ICE keeps failing, an endpoint whose restart count has reached the
\* bound eventually has no handle for the peer, and the peer's negotiation state
\* is cleared.
Released(e) ==
  /\ connections[e] = "none"
  /\ dataChannels[e] = "none"
  /\ makingOffer[e] = "unset"
  /\ ignoreOffer[e] = "unset"
  /\ pendingCandidates[e] = <<>>
  /\ iceRestartCounts[e] = 0

C9_ClosedAfterBound ==
  (connections["a"] # "none" /\ iceRestartCounts["a"] = MAX_ICE_RESTARTS) ~> Released("a")

\* The session was closed for the bound after both restart offers had gone out.
C9_Witness ==
  /\ obs["a"].gaveUp
  /\ Released("a")
  /\ obs["a"].restartOffersSent = MAX_ICE_RESTARTS

\* C10: once the session has been closed for the restart bound, a sendFile or
\* sendText goes out on the relay at once and starts no createOffer.
C10_RelayAfterGiveUp ==
  [][\A e \in E :
       obs'[e].sendsAfterGiveUp > obs[e].sendsAfterGiveUp
         => /\ obs'[e].relaySends = obs[e].relaySends + 1
            /\ obs'[e].createOfferCalls = obs[e].createOfferCalls]_vars

\* A record has gone out in this step, and every such record on the relay.
EmitsOnRelayOnly(e) ==
  /\ Len(obs'[e].emitted) > Len(obs[e].emitted)
  /\ \A i \in (Len(obs[e].emitted) + 1)..Len(obs'[e].emitted) : obs'[e].emitted[i].via = "relay"

\* C11: a sendFile or sendText whose ensureConnection (or, in sendText, whose
\* write) fails leaves the peer in relay mode; a sendFile or sendText called
\* while the peer is in relay mode sends on the relay at once and starts no
\* negotiation and no direct send; relay mode is cleared only in a step in
\* which the peer's data channel becomes open.
C11_RelayUntilChannelOpens ==
  [][\A e \in E :
       /\ obs'[e].notifiedRelay > obs[e].notifiedRelay => relayMode'[e] /\ EmitsOnRelayOnly(e)
       /\ (relayMode[e] /\ obs'[e].appCalls > obs[e].appCalls) =>
            /\ EmitsOnRelayOnly(e)
            /\ obs'[e].relaySends = obs[e].relaySends + 1
            /\ obs'[e].directSends = obs[e].directSends
            /\ obs'[e].offersSent = obs[e].offersSent
            /\ obs'[e].handlesCreated = obs[e].handlesCreated
            /\ relayMode'[e]
       /\ (relayMode[e] /\ ~relayMode'[e]) =>
            dataChannels[e] # "open" /\ dataChannels'[e] = "open"]_vars

\* A send fell back to the relay, a later send went on the relay, and then the
\* data channel opened and cleared relay mode.
C11_Witness ==
  /\ obs["a"].notifiedRelay = 1
  /\ obs["a"].relaySends = 2
  /\ dataChannels["a"] = "open"
  /\ ~relayMode["a"]

\* C12: in every reachable state, an endpoint whose data channel to the peer
\* is open does not have the peer in relay mode.
C12_OpenChannelExcludesRelayMode ==
  \A e \in E : dataChannels[e] = "open" => ~relayMode[e]

\* The endpoint holds nothing for the peer.
NoPeerState(e) ==
  /\ connections[e] = "none"
  /\ dataChannels[e] = "none"
  /\ disconnectedTimers[e] = "none"
  /\ pendingCandidates[e] = <<>>
  /\ pendingConnections[e] = "none"
  /\ iceRestartCounts[e] = 0
  /\ makingOffer[e] = "unset"
  /\ ignoreOffer[e] = "unset"
  /\ ~relayMode[e]
  /\ incomingTransfers[e] = NoTransfer
  /\ sharedSecrets[e] = <<>>

\* C13: a step in which closeConnection(peer) is called ends with no per-peer
\* state for that peer (handle, channel, timer, buffered candidates, pending
\* future, restart count, makingOffer, ignoreOffer, relay mode, inbound
\* transfer, shared secret).
C13_CloseClearsPeerState ==
  [][\A e \in E : obs'[e].closeCalls > obs[e].closeCalls => NoPeerState(e)']_vars

\* Every ensureConnection call completes: the n-th call made is followed by the
\* n-th return or failure.
EnsureTerminates ==
  \A n \in 1..MaxCalls :
    (obs["a"].appCalls >= n) ~> (obs["a"].ensured + obs["a"].ensureFailed >= n)

\* C14: every ensureConnection call completes, whatever the peer and the
\* network do, and a call that returns does so with the channel open and the
\* shared secret present.
C14_EnsureConnectionCompletes ==
  /\ EnsureTerminates
  /\ [][obs'["a"].ensured > obs["a"].ensured =>
          dataChannels'["a"] = "open" /\ sharedSecrets'["a"] # <<>>]_vars


\* The file a record that went out belongs to, and the bytes it carries.
Carried(x) ==
  IF x.rec.type = "binary" THEN x.rec.data.plain
  ELSE IF x.rec.type = "chunk" THEN FromBase64(x.rec.data).plain
  ELSE [file |-> x.rec.fileId, from |-> 0, to |-> 0]

\* What the endpoint has sent of file f, in the order sent.
SentOf(e, f) ==
  LET OfFile(x) == x.rec.type # "text" /\ Carried(x).file = f
  IN  SelectSeq(obs[e].emitted, OfFile)

\* Record i of a transfer of n chunks is the one the claim puts there.
InPlace(x, i, f, size, via) ==
  /\ x.via = via
  /\ IF i = 1 THEN x.rec = FileStart(f, size) /\ x.rec.totalChunks = Ceil(size)
     ELSE IF i = Ceil(size) + 2 THEN x.rec = FileEnd(f)
     ELSE /\ x.rec.type = (IF via = "relay" THEN "chunk" ELSE "binary")
          /\ via = "relay" => x.rec.fileId = f
          /\ Carried(x) = [file |-> f, from |-> (i - 2) * CHUNK_SIZE,
                                        to |-> Min((i - 1) * CHUNK_SIZE, size)]

ChunksOf(f, size) ==
  [i \in 1..Ceil(size) |->
     [file |-> f, from |-> (i - 1) * CHUNK_SIZE, to |-> Min(i * CHUNK_SIZE, size)]]

\* C16: when the records of one transfer arrive in the order sent and
\* unaltered, the payload handed to onFileReceived at file-end is the file
\* that was sent: its chunks, all of them, in order.
C16_ReceivedEqualsSent ==
  \A e \in E : \A i \in 1..Len(obs[e].filesReceived) :
    LET r == obs[e].filesReceived[i]
    IN  obs[e].altered = 0 => r.chunks = ChunksOf(r.fileId, r.size)

\* C17: a record is handled only when the records before it have been
\* handled to their end: while the decryption of a chunk is pending, the
\* transfer it belongs to is still the peer's inbound transfer (no file-end
\* and no file-start has been handled in between).
C17_NoRecordOvertakesAChunk ==
  \A e \in E : \A k \in DOMAIN tasks[e] :
    tasks[e][k].at = "await_decrypt" => incomingTransfers[e].serial = tasks[e][k].xfer

\* C18: a transfer in which the decryption of a chunk failed is not handed
\* to onFileReceived.
C18_FailedTransferNotDelivered ==
  \A e \in E : \A i \in 1..Len(obs[e].filesReceived) :
    obs[e].filesReceived[i].serial \notin obs[e].failedIn

\* C19: inbound transfers go by their transfer id: a file-end completes only
\* the transfer whose id it carries, and a chunk is added only to the
\* transfer it was sent for.
C19_TransfersGoById ==
  \A e \in E :
    /\ \A i \in 1..Len(obs[e].filesReceived) :
         LET r == obs[e].filesReceived[i]
         IN  /\ r.endId = r.fileId
             /\ \A j \in 1..Len(r.chunks) : r.chunks[j].file = r.fileId
    /\ \A j \in 1..Len(incomingTransfers[e].chunks) :
         incomingTransfers[e].chunks[j].file = incomingTransfers[e].fileId

\* C20: no transport error raised by a write to the data channel leaves
\* sendFile or sendText: every one is caught inside the send.
C20_TransportErrorsCaught ==
  \A e \in E : obs[e].sendTransportErrors = 0

\* The payload is the output of encryptChunk.
IsCiphertext(d) == DOMAIN d = {"secret", "plain", "intact"}

\* C21: the content of a text message leaves the sender, on the data channel
\* and on the relay alike, only encrypted under the peer's shared key.
C21_TextLeavesEncrypted ==
  \A e \in E : \A i \in 1..Len(obs[e].emitted) :
    obs[e].emitted[i].rec.type = "text" => IsCiphertext(obs[e].emitted[i].rec.data)

\* The server has a relay url.
RelayCapable(s) == \E i \in DOMAIN s.urls : s.urls[i] \in {"turn:", "turns:"}

\* The server has a reflexive url and no relay url, and its probe measured a latency.
ReflexiveReached(s) ==
  /\ ~RelayCapable(s)
  /\ \E i \in DOMAIN s.urls : s.urls[i] = "stun:"
  /\ s.probe.ok

ServedFromCache(c) ==
  /\ ~c.forceRefresh
  /\ c.cached # <<>>
  /\ c.at - c.stamp < ICE_SERVERS_CACHE_TTL

\* C23, as claimed: at most one refresh is in flight, and every call made
\* while one is in flight queries nothing and receives that refresh's result.
C23_EveryCallSharesThePending ==
  /\ Cardinality(RefreshesInFlight(IceSt)) <= 1
  /\ \A i \in DOMAIN fetches.calls :
       LET c == fetches.calls[i]
       IN  c.during # {} =>
             /\ ~c.queried
             /\ c.on \in c.during
             /\ c.settled = "fulfilled" => c.result = fetches.refreshes[c.on].result

\* C23, as the code has it: at most one refresh is in flight; a call made
\* while one is in flight queries nothing, with or without forceRefresh, and
\* receives that refresh's result, unless it was not told to refresh and the
\* cached list is still young: then it is given the cached list at once.
C23_CallsShareThePendingOrTheCache ==
  /\ Cardinality(RefreshesInFlight(IceSt)) <= 1
  /\ \A i \in DOMAIN fetches.calls :
       LET c == fetches.calls[i]
       IN  c.during # {} =>
             /\ ~c.queried
             /\ IF ServedFromCache(c)
                THEN c.on = 0 /\ c.settled = "fulfilled" /\ c.result = c.cached
                ELSE /\ c.on \in c.during
                     /\ c.settled = "fulfilled" => c.result = fetches.refreshes[c.on].result

\* Two calls were made during the refresh that the first call began, one of
\* them with forceRefresh; the three received the list that the one query
\* and its ranking gave.
C23_Witness ==
  /\ Len(fetches.calls) = 3
  /\ Len(fetches.refreshes) = 1
  /\ fetches.refreshes[1].at = "done"
  /\ fetches.refreshes[1].response = "ok"
  /\ \A i \in 2..3 : fetches.calls[i].during = {1}
  /\ fetches.calls[2].forceRefresh /\ ~fetches.calls[3].forceRefresh
  /\ \A i \in 1..3 : /\ fetches.calls[i].settled = "fulfilled"
                      /\ fetches.calls[i].result = cachedIceServers

\* The refresh is over and its query gave no list: it failed, it was aborted
\* by the 3 s timer, the response was not OK, or its body was unusable.
QueryFailed(r) == r.at = "done" /\ r.response \in {"error", "abort", "not_ok", "bad"}

\* The refresh is over, the query gave a list, and no server of it is usable.
NothingUsable(r) ==
  /\ r.at = "done"
  /\ r.response = "ok"
  /\ \A i \in DOMAIN r.data : ~RelayCapable(r.data[i]) /\ ~ReflexiveReached(r.data[i])

\* No call of fetchIceServers rejects or returns an empty list, and a refresh
\* whose query failed, or whose ranking left nothing, gives the fallback list.
FallbackNeverEmpty ==
  /\ \A i \in DOMAIN fetches.calls :
       /\ fetches.calls[i].settled \in {"pending", "fulfilled"}
       /\ fetches.calls[i].settled = "fulfilled" => fetches.calls[i].result # <<>>
  /\ \A id \in DOMAIN fetches.refreshes :
       LET r == fetches.refreshes[id]
       IN  (QueryFailed(r) \/ NothingUsable(r)) =>
             /\ r.result = FALLBACK_ICE_SERVERS
             /\ \A i \in DOMAIN fetches.calls :
                  fetches.calls[i].on = id => /\ fetches.calls[i].settled = "fulfilled"
                                              /\ fetches.calls[i].result = FALLBACK_ICE_SERVERS

\* The step ends a refresh whose query failed.
QueryFails ==
  \E id \in DOMAIN fetches.refreshes :
    /\ fetches.refreshes[id].at # "done"
    /\ QueryFailed(fetches'.refreshes[id])

\* C24: fetchIceServers returns the fallback list when the query fails, times
\* out, is not OK, or the ranking leaves no server; it never returns an empty
\* list and never rejects; a failed query leaves the cached list and its
\* timestamp as they were.
C24_FallbackAndCacheKept ==
  /\ []FallbackNeverEmpty
  /\ [][QueryFails => /\ cachedIceServers' = cachedIceServers
                      /\ cachedIceServersTimestamp' = cachedIceServersTimestamp]_vars

\* A list was cached, a later refresh's query was aborted by its timer: the
\* calls that waited for it received the fallback list and the cached list is
\* still the one of the earlier refresh.
C24_Witness ==
  /\ Len(fetches.refreshes) = 2
  /\ fetches.refreshes[1].response = "ok"
  /\ fetches.refreshes[2].response = "abort"
  /\ fetches.refreshes[2].at = "done"
  /\ cachedIceServers = fetches.refreshes[1].result
  /\ cachedIceServers # FALLBACK_ICE_SERVERS
  /\ \E i \in DOMAIN fetches.calls :
       /\ fetches.calls[i].on = 2
       /\ fetches.calls[i].result = FALLBACK_ICE_SERVERS

\* C25: once an endpoint has an identity key pair, no call of generateKeyPair
\* replaces it, and the peer's shared key stays derived from the endpoint's
\* current pair.
C25_GenerateKeyPairIdempotent ==
  /\ [][\A e \in E : keyPair[e] # 0 => keyPair'[e] = keyPair[e]]_vars
  /\ [](\A e \in E : sharedSecrets[e] # <<>> /\ keyPair[Peer(e)] # 0
                        => sharedSecrets[e][2] = keyPair[Peer(e)])

\* C26: the frame is the 12-byte nonce followed by the ciphertext; decrypting
\* the frame as it was made gives the chunk back, and a frame of which the
\* nonce or the ciphertext was altered is rejected, no plaintext is returned.
C26_RoundTripOrRejected ==
  /\ frames.stage \in {"encrypted", "decrypted"} /\ ~frames.altered =>
       /\ [i \in 1..IV_LENGTH |-> frames.frame[i]] = [i \in 1..IV_LENGTH |-> <<frames.iv[i]>>]
       /\ SubSeq(frames.frame, IV_LENGTH + 1, Len(frames.frame))
            = encrypt(frames.key, frames.iv, frames.plain)
  /\ frames.stage = "decrypted" =>
       IF frames.altered THEN ~frames.out.ok
       ELSE frames.out.ok /\ frames.out.plain = frames.plain

\* A chunk of two different bytes came back from its frame.
C26_Witness ==
  /\ frames.stage = "decrypted"
  /\ ~frames.altered
  /\ frames.plain = <<0, 1>>
  /\ frames.out = [ok |-> TRUE, plain |-> <<0, 1>>]

\* A counted restart attempt of the endpoint is still in its delay.
AttemptWaiting(ts) ==
  \E k \in DOMAIN ts : ts[k].fn = "_attemptIceRestart" /\ ts[k].at = "await_delay"

\* C27: when a session that never connected is closed for connectivity
\* failure, MAX_ICE_RESTARTS restart offers have been sent and no counted
\* attempt is still waiting to send its offer.
C27_ClosedOnlyAfterOffersSent ==
  [][\A e \in E :
       ~obs[e].gaveUp /\ obs'[e].gaveUp =>
         /\ obs'[e].restartOffersSent = MAX_ICE_RESTARTS
         /\ ~AttemptWaiting(tasks'[e])]_vars

\* The pending grace timer of the endpoint was set for the handle that the
\* Map holds now.
TimerOfHandle(e) ==
  /\ disconnectedTimers[e] = "pending"
  /\ obs[e].timerOf = obs[e].handlesCreated

\* The browser holds at most one grace timer of the peer, the one of the Map,
\* and the timer of a handle only while that handle's ICE state is disconnected.
OneGraceTimerWhileDisconnected ==
  \A e \in E :
    /\ obs[e].timersPending = (IF disconnectedTimers[e] = "pending" THEN 1 ELSE 0)
    /\ TimerOfHandle(e) => iceConnectionState[e] = "disconnected"

\* The grace timer of the endpoint fires and starts a restart attempt.
GraceRestart(e) ==
  /\ disconnectedTimers[e] = "pending"
  /\ disconnectedTimers'[e] = "fired"
  /\ iceRestartCounts'[e] > iceRestartCounts[e]

\* C28: at most one grace timer is pending per peer, every ICE state change
\* cancels it, and it starts a restart only if the ICE state is disconnected
\* when it fires: a session that recovers in time gets no restart from it.
C28_GraceTimerCancelledByAnyChange ==
  /\ []OneGraceTimerWhileDisconnected
  /\ [][\A e \in E :
          /\ GraceRestart(e) /\ TimerOfHandle(e) => iceConnectionState[e] = "disconnected"
          /\ ( /\ obs'[e].handlesCreated = obs[e].handlesCreated
               /\ iceConnectionState'[e] # iceConnectionState[e]
               /\ iceConnectionState'[e] # "disconnected" )
               => disconnectedTimers'[e] = "none" /\ obs'[e].timersPending = 0]_vars

\* The ICE state was disconnected and recovered before the timer fired: the
\* timer was cancelled and no restart attempt was started.
C28_Witness ==
  /\ iceConnectionState["a"] = "connected"
  /\ obs["a"].timerCleared
  /\ disconnectedTimers["a"] = "none"
  /\ obs["a"].attempts = 0
  /\ iceRestartCounts["a"] = 0

\* The bytes of file f in the first n records that the endpoint sent.
RECURSIVE HandedBytes(_, _, _)
HandedBytes(e, f, n) ==
  IF n = 0 THEN 0
  ELSE LET x == obs[e].emitted[n]
           here == IF x.rec.type \in {"binary", "chunk"} /\ Carried(x).file = f
                   THEN Carried(x).to - Carried(x).from ELSE 0
       IN  here + HandedBytes(e, f, n - 1)

\* C29: every progress report of a send, direct or relayed, gives as sent the
\* bytes of the file handed to the transport so far, never more than the
\* file's size, and a percentage of at most 100.
C29_ProgressWithinTheFile ==
  \A e \in E : \A i \in 1..Len(obs[e].progress) :
    LET r == obs[e].progress[i]
    IN  /\ r.sent = HandedBytes(e, r.fileId, r.upto)
        /\ r.sent <= r.total
        /\ r.percent.num <= 100 * r.percent.den

\* C30: the channel registered for a peer is removed from dataChannels only
\* by closeConnection or by the close of that same channel, never by the late
\* close event of a channel that was registered before it.
C30_RegistrationRemovedByOwnClose ==
  [][\A e \in E :
       dataChannels[e] # "none" /\ dataChannels'[e] = "none" =>
         \/ obs'[e].closes > obs[e].closes
         \/ obs'[e].channelsClosed > obs[e].channelsClosed
         \/ obs[e].closing \ obs'[e].closing = {obs[e].registered}]_vars

\* The pairs of which a public key has gone out in an offer.
ExportedPairs ==
  {exports.calls[p].pub : p \in {q \in Remotes : exports.derived[q] # <<>>}}

\* The key stored for peer p was derived from the private key of the pair
\* whose public key p received.
SameSecret(p) ==
  exports.sharedSecrets[p] # <<>> => exports.sharedSecrets[p][1] = exports.derived[p][2]

\* C31: the public keys sent in the offers of a session all belong to one key
\* pair, also when the exports overlap while no pair exists yet, and the key
\* stored for each peer comes from the pair whose public key that peer got.
C31_OneIdentityForEveryPeer ==
  /\ Cardinality(ExportedPairs) <= 1
  /\ \A p \in Remotes : SameSecret(p)

\* The handleOffer calls of the endpoint that wait for a pending promise.
OffersWaiting(e) ==
  {k \in DOMAIN tasks[e] :
     tasks[e][k].fn = "handleOffer" /\ tasks[e][k].at = "await_pending"}

\* C32: a remote offer that is handled while a local ensureConnection is in
\* flight waits at most for createConnection's own promise, which resolves to
\* the handle; it never waits for the promise of the local negotiation, which
\* ends only with that negotiation and yields no handle.
C32_OfferWaitsForTheHandle ==
  \A e \in E : \A k \in OffersWaiting(e) : tasks[e][k].on = "cp"

\* The sender's two sendFile calls have returned and the receiver has handled
\* every record sent to it, each decryption included.
BothSendsHandled ==
  /\ obs["a"].filesStarted = 2
  /\ obs["a"].returned = {1, 2}
  /\ tasks["a"] = <<>> /\ tasks["b"] = <<>>
  /\ net["b"] = <<>> /\ chan["b"] = <<>>

\* The receiver has delivered file f whole: a transfer started and ended for
\* f, holding the chunks of f and nothing else.
DeliveredWhole(e, f) ==
  \E i \in 1..Len(obs[e].filesReceived) :
    LET r == obs[e].filesReceived[i]
    IN  r.fileId = f /\ r.endId = f /\ r.chunks = ChunksOf(f, r.size)

\* C33: when two sendFile calls to the same peer overlap, the receiver ends
\* up with two delivered files, each made of exactly the chunks of its own
\* transfer.
C33_OverlappingFilesBothDelivered ==
  BothSendsHandled /\ obs["b"].altered = 0 =>
    /\ Len(obs["b"].filesReceived) = 2
    /\ DeliveredWhole("b", 1)
    /\ DeliveredWhole("b", 2)

=============================================================================
